---- MODULE Spec2Model ----
(***************************************************************************)
(* A model of the per-file inode state machine of EdenFS                   *)
(* (eden/fs/inodes/FileInode.cpp): the three-state automaton               *)
(* BLOB_NOT_LOADING / BLOB_LOADING / MATERIALIZED_IN_OVERLAY, the state    *)
(* lock, the continuation runners runWhileDataLoaded, runWhileMaterialized *)
(* and truncateAndRun, the blob load started by startLoadingData and its   *)
(* completion handler, and the operations read, write, setattr, stat and   *)
(* fallocate built on them.                                                *)
(***************************************************************************)
EXTENDS Integers, Sequences, FiniteSets, TLC

(***************************************************************************)
(* Bounds of the model.                                                    *)
(***************************************************************************)
\* Number of operations (threads) that call into the inode.
NumOps == 2

Procs == 1..NumOps

(***************************************************************************)
(* Values of the program.                                                  *)
(***************************************************************************)
BLOB_NOT_LOADING == "BLOB_NOT_LOADING"
BLOB_LOADING == "BLOB_LOADING"
MATERIALIZED_IN_OVERLAY == "MATERIALIZED_IN_OVERLAY"

\* NonMaterializedState::kUnknownSize: the size has not been fetched yet.
kUnknownSize == -1

\* An empty std::optional<size> in DesiredMetadata.
NoSize == -1

\* A null unique_ptr<SharedPromise>; promises are numbered from 1.
NoPromise == 0

\* Nobody holds state_.wlock(); operation p holds it as p.
NoHolder == 0

\* The bytes of the blob the inode's hash names.
BlobContents == <<1, 2>>

BlobSize == Len(BlobContents)

\* The bytes a write() call carries.
WriteData == <<7>>

Min(a, b) == IF a < b THEN a ELSE b

Max(a, b) == IF a < b THEN b ELSE a

(***************************************************************************)
(* The calls the model makes: read(size, off), write(WriteData, off),      *)
(* setattr(desired.size), stat() and fallocate(off, size). Nothing looks   *)
(* at the size and the offset of a read before its continuation runs, so   *)
(* they are drawn from ReadCalls there.                                    *)
(***************************************************************************)
ReadCalls == {<<3, 0>>, <<1, 0>>, <<1, 1>>, <<0, 3>>}

WriteOffsets == {1}

SetattrSizes == {NoSize, 0, 1}

Calls ==
    [kind : {"read"}, size : {0}, off : {0}]
    \cup [kind : {"write"}, size : {Len(WriteData)}, off : WriteOffsets]
    \cup [kind : {"setattr"}, size : SetattrSizes, off : {0}]
    \cup [kind : {"stat"}, size : {0}, off : {0}]
    \cup [kind : {"fallocate"}, size : {3}, off : {0}]

VARIABLES
    state,          \* folly::Synchronized<FileInodeState> state_: the record
    lock,           \* holder of state_'s write lock, NoHolder when free
    ops,            \* the operations in flight: ops[p] is thread p's call
    loads,          \* the getBlob requests issued, with their completion handler
    promises,       \* the SharedPromise objects created by startLoadingData
    overlay,        \* the overlay file of the inode: present, bytes
    parentNotified, \* number of materializeInParent() calls made
    edenBug         \* EDEN_BUG() / XLOG(FATAL) was hit

inodeVars == <<state, lock, ops, loads, promises, overlay, parentNotified, edenBug>>

\* The state of the other components of the program. Each component has a
\* specification of its own, in which the rest of the program stands still.
VARIABLES
    localStore,     \* LocalStore, KeySpace::HgProxyHashFamily: object id -> bytes
    encoded,        \* the HgProxyHash::store() call made, NoCall before it
    decoded,        \* the HgProxyHash::load() call made, NoCall before it
    takeoverData,   \* the TakeoverData object of the daemon handing over
    msg,            \* the UnixSocket::Message: data and files
    serialized,     \* the TakeoverData::serialize() call made, NoCall before it
    received,       \* the TakeoverData::deserialize() call made, NoCall before it
    negotiation,    \* the computeCompatibleVersion() call made, NoCall before it
    pingCheck,      \* the TakeoverData::isPing() call made, NoCall before it
    inner,          \* PrjfsChannel::inner_: the RCU-protected PrjfsChannelInner
    stopPromise,    \* PrjfsChannel::stopPromise_.isFulfilled()
    stopping,       \* the position of the thread that called PrjfsChannel::stop()
    callbacks       \* the ProjectedFS callbacks the kernel has invoked

\* No call made yet.
NoCall == [op |-> "none"]

storeVars == <<localStore, encoded, decoded>>

takeoverVars == <<takeoverData, msg, serialized, received, negotiation, pingCheck>>

prjfsVars == <<inner, stopPromise, stopping, callbacks>>

otherVars == <<storeVars, takeoverVars, prjfsVars>>

vars == <<inodeVars, otherVars>>

\* The proxy hash store before anything was written to it or read from it.
StoreUnused ==
    /\ localStore = <<>>
    /\ encoded = NoCall
    /\ decoded = NoCall

\* folly::File{}: a file object that owns no descriptor
NoFd == -1

\* The takeover codec before any hand-over: no mounts, an empty message.
TakeoverUnused ==
    /\ takeoverData = [lockFile |-> NoFd, thriftSocket |-> NoFd, mountPoints |-> <<>>]
    /\ msg = [data |-> <<>>, files |-> <<>>]
    /\ serialized = NoCall
    /\ received = NoCall
    /\ negotiation = NoCall
    /\ pingCheck = NoCall

\* No PrjfsChannel has been constructed.
PrjfsUnused ==
    /\ inner = "nullptr"
    /\ stopPromise = FALSE
    /\ stopping = "no channel"
    /\ callbacks = <<>>

(***************************************************************************)
(* FileInodeState                                                          *)
(***************************************************************************)
NonMaterializedState(size) == [has_value |-> TRUE, size |-> size]

NullNonMaterializedState == [has_value |-> FALSE, size |-> kUnknownSize]

\* FileInodeState(const std::optional<ObjectId>& h) and FileInodeState()
FileInodeState(hasHash) ==
    [tag |-> IF hasHash THEN BLOB_NOT_LOADING ELSE MATERIALIZED_IN_OVERLAY,
     nonMaterializedState |->
        IF hasHash THEN NonMaterializedState(kUnknownSize)
                   ELSE NullNonMaterializedState,
     blobLoadingPromise |-> NoPromise,
     interestHandle |-> FALSE,
     readByteRanges |-> {}]

\* FileInodeState::checkInvariants: TRUE when no XCHECK fires.
checkInvariants(s) ==
    CASE s.tag = BLOB_NOT_LOADING ->
            /\ s.nonMaterializedState.has_value
            /\ s.blobLoadingPromise = NoPromise
      [] s.tag = BLOB_LOADING ->
            /\ s.nonMaterializedState.has_value
            /\ s.blobLoadingPromise # NoPromise
            /\ s.readByteRanges = {}
      [] s.tag = MATERIALIZED_IN_OVERLAY ->
            /\ ~s.nonMaterializedState.has_value
            /\ s.blobLoadingPromise = NoPromise
            /\ s.readByteRanges = {}
      [] OTHER -> FALSE

isMaterialized(s) == s.tag = MATERIALIZED_IN_OVERLAY

\* A setMaterialized that keeps the interest handle of the blob.
setMaterialized_keepHandle(s) ==
    [s EXCEPT !.nonMaterializedState = NullNonMaterializedState,
              !.tag = MATERIALIZED_IN_OVERLAY,
              !.readByteRanges = {}]

\* A setMaterialized that forgets to clear the byte ranges served so far.
setMaterialized_keepRanges(s) ==
    [s EXCEPT !.nonMaterializedState = NullNonMaterializedState,
              !.tag = MATERIALIZED_IN_OVERLAY,
              !.interestHandle = FALSE]

\* FileInode::LockedState::setMaterialized
setMaterialized(s) ==
    [s EXCEPT !.nonMaterializedState = NullNonMaterializedState,
              !.tag = MATERIALIZED_IN_OVERLAY,
              !.interestHandle = FALSE,
              !.readByteRanges = {}]

\* FileInode::LockedState::getCachedBlob: the outcomes the blob cache allows.
\* The interest handle still yields the blob, or the cache has it (and hands
\* out a handle that may be empty), or both miss and the ranges are dropped.
getCachedBlob(s) ==
    (IF s.interestHandle THEN {[state |-> s, blob |-> "blob"]} ELSE {})
    \cup {[state |-> [s EXCEPT !.interestHandle = h], blob |-> "blob"] :
            h \in BOOLEAN}
    \cup {[state |-> [s EXCEPT !.interestHandle = FALSE,
                               !.readByteRanges = {}],
           blob |-> "nullptr"]}

(***************************************************************************)
(* CoverageSet, as the set of byte positions covered.                      *)
(***************************************************************************)
CoverageAdd(set, begin, end) == set \cup {i \in begin..(end - 1) : TRUE}

CoverageCovers(set, begin, end) == \A i \in begin..(end - 1) : i \in set

(***************************************************************************)
(* The overlay file (OverlayFileAccess), a byte sequence.                  *)
(***************************************************************************)
NoFile == [exists |-> FALSE, bytes |-> <<>>]

File(bytes) == [exists |-> TRUE, bytes |-> bytes]

\* OverlayFileAccess::read: the bytes of [off, off + size) that exist.
OverlayRead(f, size, off) == SubSeq(f.bytes, off + 1, Min(off + size, Len(f.bytes)))

\* OverlayFileAccess::write: overwrite or append at off, zero-filling a gap.
OverlayWrite(f, data, off) ==
    LET old == f.bytes
        n == Max(Len(old), off + Len(data))
    IN File([i \in 1..n |->
                IF i > off /\ i <= off + Len(data) THEN data[i - off]
                ELSE IF i <= Len(old) THEN old[i]
                ELSE 0])

\* OverlayFileAccess::truncate(inode, size): cut or zero-extend to size.
OverlayTruncate(f, size) ==
    File([i \in 1..size |-> IF i <= Len(f.bytes) THEN f.bytes[i] ELSE 0])

\* OverlayFileAccess::fallocate: make sure [off, off + len) is allocated.
OverlayFallocate(f, off, len) ==
    IF off + len > Len(f.bytes) THEN OverlayTruncate(f, off + len) ELSE f

(***************************************************************************)
(* Operations in flight.                                                   *)
(***************************************************************************)
NoResult == [status |-> "none", cause |-> "", buf |-> <<>>, eof |-> FALSE, value |-> 0]

Failure(cause) == [NoResult EXCEPT !.status = "error", !.cause = cause]

ReadResult(buf, eof) == [NoResult EXCEPT !.status = "ok", !.buf = buf, !.eof = eof]

ValueResult(v) == [NoResult EXCEPT !.status = "ok", !.value = v]

\* A thread that has not called yet.
IdleOp ==
    [kind |-> "none", size |-> 0, off |-> 0,
     id |-> "", entryType |-> "",  \* the arguments of isSameAs
     pc |-> "idle",
     blob |-> "nullptr",          \* the blob argument of the runner
     future |-> NoPromise,        \* the loading promise it waits on
     waits |-> 0,                 \* how often it has waited: on a loading
                                  \* promise, or (stat) on getBlobSize
     loadingPromise |-> NoPromise,\* truncateAndRun's local loadingPromise
     scopeExit |-> FALSE,         \* SCOPE_EXIT { materializeInParent(); } armed
     result |-> NoResult]

Init ==
    /\ \E hasHash \in BOOLEAN :
        /\ state = FileInodeState(hasHash)
        /\ overlay = IF hasHash THEN NoFile ELSE File(<<>>)
    /\ lock = NoHolder
    /\ ops = [p \in Procs |-> IdleOp]
    /\ loads = <<>>
    /\ promises = <<>>
    /\ parentNotified = 0
    /\ edenBug = FALSE
    /\ StoreUnused
    /\ TakeoverUnused
    /\ PrjfsUnused

\* A thread calls read, write, setattr, stat or fallocate on the inode; the
\* call begins with LockedState{this}, which takes state_.wlock().
Call(p) ==
    /\ ops[p].pc = "idle"
    /\ \A q \in Procs : q < p => ops[q].pc # "idle"
    /\ lock = NoHolder
    /\ lock' = p
    /\ \E c \in Calls :
        ops' = [ops EXCEPT ![p] = [IdleOp EXCEPT !.kind = c.kind,
                                                 !.size = c.size,
                                                 !.off = c.off,
                                                 !.pc = "locked"]]
    /\ UNCHANGED <<state, loads, promises, overlay, parentNotified, edenBug>>

\* setattr on a file under .eden: EPERM before the state lock is taken.
setattrDenied(p) ==
    /\ ops[p].pc = "idle"
    /\ \A q \in Procs : q < p => ops[q].pc # "idle"
    /\ \E c \in Calls :
        /\ c.kind = "setattr"
        /\ ops' = [ops EXCEPT ![p] = [IdleOp EXCEPT !.kind = c.kind,
                                                    !.size = c.size,
                                                    !.off = c.off,
                                                    !.pc = "done",
                                                    !.result = Failure("EPERM")]]
    /\ UNCHANGED <<state, lock, loads, promises, overlay, parentNotified, edenBug>>

\* Scope-exit actions that run on the success path only (SCOPE_SUCCESS).
AfterFn_scopeSuccess(o, res) ==
    [o EXCEPT !.result = res,
              !.blob = "nullptr",
              !.pc = IF o.scopeExit /\ res.status = "ok" THEN "publish" ELSE "done"]

\* The op leaves the continuation: its result is known, the scope-exit
\* actions (if armed) are still to run.
AfterFn(o, res) ==
    [o EXCEPT !.result = res,
              !.blob = "nullptr",
              !.pc = IF o.scopeExit THEN "publish" ELSE "done"]

\* SharedPromise::setValue / setException: the first call decides the value.
SetPromise(ps, id, v) ==
    IF id \in 1..Len(ps)
    THEN [ps EXCEPT ![id] = [value |-> IF @.sets = 0 THEN v ELSE @.value,
                             sets |-> @.sets + 1]]
    ELSE ps

(***************************************************************************)
(* startLoadingData                                                        *)
(***************************************************************************)
\* A load that leaves the lock held while the caller waits.
unlockForLoad_keepLock == lock' = lock

\* state.unlock() before the wait on the blob load.
unlockForLoad == lock' = NoHolder

\* A startLoadingData that installs the promise and leaves the tag alone.
startLoadingData_keepTag(p, s) ==
    LET id == Len(promises) + 1 IN
    /\ loads' = Append(loads, [pc |-> "inflight", issuer |-> p,
                               issuedIn |-> s.tag, promise |-> NoPromise,
                               value |-> "unset"])
    /\ promises' = Append(promises, [value |-> "unset", sets |-> 0])
    /\ state' = [s EXCEPT !.blobLoadingPromise = id]
    /\ unlockForLoad
    /\ ops' = [ops EXCEPT ![p].pc = "waiting", ![p].future = id,
                          ![p].waits = @ + 1]

\* A startLoadingData that installs the promise and flips the tag before it
\* asks BlobAccess for the blob.
startLoadingData_promiseFirst(p, s) ==
    LET id == Len(promises) + 1
        loading == [s EXCEPT !.blobLoadingPromise = id, !.tag = BLOB_LOADING]
    IN
    /\ promises' = Append(promises, [value |-> "unset", sets |-> 0])
    /\ state' = loading
    /\ lock' = NoHolder
    /\ \/ /\ ops' = [ops EXCEPT ![p].pc = "done", ![p].result = Failure("getBlob")]
          /\ UNCHANGED loads
       \/ /\ loads' = Append(loads, [pc |-> "inflight", issuer |-> p,
                                     issuedIn |-> s.tag, promise |-> NoPromise,
                                     value |-> "unset"])
          /\ ops' = [ops EXCEPT ![p].pc = "waiting", ![p].future = id,
                                ![p].waits = @ + 1]

\* FileInode::startLoadingData up to the return of resultFuture; s is the
\* locked state the caller passes. getBlob may throw before any mutation.
startLoadingData(p, s) ==
    \/ /\ state' = s
       /\ lock' = NoHolder
       /\ ops' = [ops EXCEPT ![p].pc = "done", ![p].result = Failure("getBlob")]
       /\ UNCHANGED <<loads, promises>>
    \/ LET id == Len(promises) + 1 IN
       /\ loads' = Append(loads, [pc |-> "inflight", issuer |-> p,
                                  issuedIn |-> s.tag, promise |-> NoPromise,
                                  value |-> "unset"])
       /\ promises' = Append(promises, [value |-> "unset", sets |-> 0])
       /\ state' = [s EXCEPT !.blobLoadingPromise = id, !.tag = BLOB_LOADING]
       /\ unlockForLoad
       /\ ops' = [ops EXCEPT ![p].pc = "waiting", ![p].future = id,
                             ![p].waits = @ + 1]

\* A runner that starts a second load instead of latching on.
latchOnLoad_startAgain(p) ==
    /\ startLoadingData(p, state)
    /\ UNCHANGED <<overlay, parentNotified, edenBug>>

\* case State::BLOB_LOADING of both runners: latch on to the load in progress.
latchOnLoad(p) ==
    /\ ops' = [ops EXCEPT ![p].pc = "waiting",
                          ![p].future = state.blobLoadingPromise,
                          ![p].waits = @ + 1]
    /\ unlockForLoad
    /\ UNCHANGED <<state, loads, promises, overlay, parentNotified, edenBug>>

\* A completion handler that resets the tag on success only.
loadFinished_stuckOnError(s, ok, handle) ==
    [s EXCEPT !.blobLoadingPromise = NoPromise,
              !.tag = IF ok THEN BLOB_NOT_LOADING ELSE @,
              !.interestHandle = IF ok THEN handle ELSE @]

\* case State::BLOB_LOADING of the completion handler: the state it leaves.
loadFinished(s, ok, handle) ==
    [s EXCEPT !.blobLoadingPromise = NoPromise,
              !.tag = BLOB_NOT_LOADING,
              !.interestHandle = IF ok THEN handle ELSE @]

\* A completion handler that takes a materialized inode for a loading one.
loadRacedWithTruncate_never(s) == FALSE

\* case State::MATERIALIZED_IN_OVERLAY of the completion handler: the load
\* raced with a truncation that materialized the file.
loadRacedWithTruncate(s) == s.tag = MATERIALIZED_IN_OVERLAY

\* The thenTry continuation of getBlobFuture, under the state lock.
blobLoaded(i) ==
    /\ i \in 1..Len(loads)
    /\ loads[i].pc = "inflight"
    /\ lock = NoHolder
    /\ \E ok \in BOOLEAN, handle \in BOOLEAN :
        IF state.tag = BLOB_NOT_LOADING
        THEN /\ edenBug' = TRUE
             /\ loads' = [loads EXCEPT ![i].pc = "done"]
             /\ UNCHANGED state
        ELSE IF loadRacedWithTruncate(state)
        THEN /\ edenBug' = (edenBug \/ state.blobLoadingPromise # NoPromise)
             /\ loads' = [loads EXCEPT ![i].pc = "done"]
             /\ UNCHANGED state
        ELSE /\ state' = loadFinished(state, ok, handle)
             /\ loads' = [loads EXCEPT
                             ![i].pc = "fulfil",
                             ![i].promise = state.blobLoadingPromise,
                             ![i].value = IF ok THEN "blob" ELSE "error"]
             /\ UNCHANGED edenBug
    /\ UNCHANGED <<lock, ops, promises, overlay, parentNotified>>

\* promise.setValue(object) / promise.setException(...) after state.unlock().
fulfilLoad(i) ==
    /\ i \in 1..Len(loads)
    /\ loads[i].pc = "fulfil"
    /\ promises' = SetPromise(promises, loads[i].promise, loads[i].value)
    /\ loads' = [loads EXCEPT ![i].pc = "done"]
    /\ UNCHANGED <<state, lock, ops, overlay, parentNotified, edenBug>>

\* The thenValue continuation of both runners: it runs once the promise is
\* fulfilled with a value, and is skipped when the promise holds an error.
Resume(p) ==
    /\ ops[p].pc = "waiting"
    /\ promises[ops[p].future].value # "unset"
    /\ IF promises[ops[p].future].value = "error"
       THEN /\ ops' = [ops EXCEPT ![p].pc = "done", ![p].result = Failure("load")]
            /\ UNCHANGED lock
       ELSE /\ lock = NoHolder
            /\ lock' = p
            /\ ops' = [ops EXCEPT ![p].pc = "locked",
                                  ![p].blob = promises[ops[p].future].value]
    /\ UNCHANGED <<state, loads, promises, overlay, parentNotified, edenBug>>

(***************************************************************************)
(* runWhileDataLoaded and read                                             *)
(***************************************************************************)
\* The runner hands the locked state and the blob to fn.
InvokeFn(p, s, blob) ==
    /\ state' = s
    /\ ops' = [ops EXCEPT ![p].pc = "fn", ![p].blob = blob]
    /\ UNCHANGED <<lock, loads, promises>>

\* A runner that calls fn as soon as it is handed a blob, whatever the tag.
runWhileDataLoaded_noRecheck(p) ==
    /\ ops[p].pc = "locked"
    /\ ops[p].kind = "read"
    /\ IF ops[p].blob # "nullptr" \/ state.tag = MATERIALIZED_IN_OVERLAY
       THEN InvokeFn(p, state, ops[p].blob)
       ELSE IF state.tag = BLOB_LOADING
       THEN InvokeFn(p, state, "nullptr")
       ELSE \E r \in getCachedBlob(state) :
                IF r.blob # "nullptr" THEN InvokeFn(p, r.state, r.blob)
                ELSE startLoadingData(p, r.state)
    /\ UNCHANGED <<overlay, parentNotified, edenBug>>

\* FileInode::runWhileDataLoaded, from the locked state to fn or to the wait.
runWhileDataLoaded(p) ==
    /\ ops[p].pc = "locked"
    /\ ops[p].kind = "read"
    /\ CASE state.tag = BLOB_NOT_LOADING ->
            /\ IF ops[p].blob # "nullptr"
               THEN InvokeFn(p, state, ops[p].blob)
               ELSE \E r \in getCachedBlob(state) :
                        IF r.blob # "nullptr" THEN InvokeFn(p, r.state, r.blob)
                        ELSE startLoadingData(p, r.state)
            /\ UNCHANGED <<overlay, parentNotified, edenBug>>
         [] state.tag = BLOB_LOADING -> latchOnLoad(p)
         [] OTHER ->
            /\ InvokeFn(p, state, "nullptr")
            /\ UNCHANGED <<overlay, parentNotified, edenBug>>

\* A blob read that reports EOF only when it returns no bytes.
BlobRead_eofWhenEmpty(size, off) ==
    IF off > BlobSize
    THEN ReadResult(<<>>, TRUE)
    ELSE LET n == Min(size, BlobSize - off)
         IN ReadResult(SubSeq(BlobContents, off + 1, off + n), n = 0)

\* The Cursor part of read's continuation: the bytes of the blob and isAtEnd.
BlobRead(size, off) ==
    IF off > BlobSize
    THEN ReadResult(<<>>, TRUE)
    ELSE LET n == Min(size, BlobSize - off)
         IN ReadResult(SubSeq(BlobContents, off + 1, off + n), off + n = BlobSize)

\* A materialized read that reports EOF for every empty buffer.
MaterializedRead_eofWhenEmpty(size, off) ==
    LET buf == OverlayRead(overlay, size, off)
    IN ReadResult(buf, buf = <<>>)

\* The materialized branch of read's continuation.
MaterializedRead(size, off) ==
    LET buf == OverlayRead(overlay, size, off)
    IN ReadResult(buf, size # 0 /\ buf = <<>>)

\* A read that releases the handle of a fully read blob and keeps the ranges.
recordRead_keepCovered(s, size, off) ==
    LET ranges == CoverageAdd(s.readByteRanges, off, off + size)
    IN IF CoverageCovers(ranges, 0, BlobSize)
       THEN [s EXCEPT !.interestHandle = FALSE, !.readByteRanges = ranges]
       ELSE [s EXCEPT !.readByteRanges = ranges]

\* A read that remembers only its own range, not the ranges read before.
recordRead_onlyLast(s, size, off) ==
    LET ranges == CoverageAdd({}, off, off + size)
    IN IF CoverageCovers(ranges, 0, BlobSize)
       THEN [s EXCEPT !.interestHandle = FALSE, !.readByteRanges = {}]
       ELSE [s EXCEPT !.readByteRanges = ranges]

\* The state after read's continuation has recorded [off, off + size).
recordRead(s, size, off) ==
    LET ranges == CoverageAdd(s.readByteRanges, off, off + size)
    IN IF CoverageCovers(ranges, 0, BlobSize)
       THEN [s EXCEPT !.interestHandle = FALSE, !.readByteRanges = {}]
       ELSE [s EXCEPT !.readByteRanges = ranges]

\* The continuation FileInode::read passes to runWhileDataLoaded, for a
\* read(size, off); the state lock is released when it returns.
readFn(p) ==
    /\ ops[p].pc = "fn"
    /\ ops[p].kind = "read"
    /\ lock' = NoHolder
    /\ IF state.tag = MATERIALIZED_IN_OVERLAY
       THEN /\ \/ ops' = [ops EXCEPT ![p] = AfterFn(@, Failure("overlay"))]
               \/ \E c \in ReadCalls :
                    ops' = [ops EXCEPT ![p] =
                             AfterFn([@ EXCEPT !.size = c[1], !.off = c[2]],
                                     MaterializedRead(c[1], c[2]))]
            /\ UNCHANGED <<state, edenBug>>
       ELSE IF state.tag = BLOB_NOT_LOADING /\ ops[p].blob # "nullptr"
       THEN /\ \E c \in ReadCalls :
                 /\ state' = recordRead(state, c[1], c[2])
                 /\ ops' = [ops EXCEPT ![p] =
                             AfterFn([@ EXCEPT !.size = c[1], !.off = c[2]],
                                     BlobRead(c[1], c[2]))]
            /\ UNCHANGED edenBug
       ELSE /\ edenBug' = TRUE
            /\ ops' = [ops EXCEPT ![p] = AfterFn(@, Failure("XDCHECK"))]
            /\ UNCHANGED state
    /\ UNCHANGED <<loads, promises, overlay, parentNotified>>


(***************************************************************************)
(* runWhileMaterialized, truncateAndRun and their continuations            *)
(***************************************************************************)
\* A setattr without the truncate-to-zero shortcut.
UsesTruncateAndRun_never(o) == FALSE

\* bool truncate = desired.size.has_value() && desired.size.value() == 0
UsesTruncateAndRun(o) == o.kind = "setattr" /\ o.size = 0

\* write, fallocate and every other setattr go through runWhileMaterialized.
UsesRunWhileMaterialized(o) ==
    \/ o.kind \in {"write", "fallocate"}
    \/ o.kind = "setattr" /\ ~UsesTruncateAndRun(o)

\* A materializeNow that creates an empty overlay file.
materializeNow_emptyFile(p, s) ==
    \/ /\ state' = s
       /\ lock' = NoHolder
       /\ ops' = [ops EXCEPT ![p].pc = "done", ![p].result = Failure("createFile")]
       /\ UNCHANGED overlay
    \/ /\ overlay' = File(<<>>)
       /\ state' = setMaterialized(s)
       /\ ops' = [ops EXCEPT ![p].pc = "fn", ![p].blob = "blob", ![p].scopeExit = TRUE]
       /\ UNCHANGED lock

\* A materializeNow that fills the overlay file and leaves the state alone.
materializeNow_overlayOnly(p, s) ==
    \/ /\ state' = s
       /\ lock' = NoHolder
       /\ ops' = [ops EXCEPT ![p].pc = "done", ![p].result = Failure("createFile")]
       /\ UNCHANGED overlay
    \/ /\ overlay' = File(BlobContents)
       /\ state' = s
       /\ ops' = [ops EXCEPT ![p].pc = "fn", ![p].blob = "blob", ![p].scopeExit = TRUE]
       /\ UNCHANGED lock

\* A materializeNow that marks the state materialized before createFile.
materializeNow_stateFirst(p, s) ==
    \/ /\ state' = setMaterialized(s)
       /\ lock' = NoHolder
       /\ ops' = [ops EXCEPT ![p].pc = "done", ![p].result = Failure("createFile")]
       /\ UNCHANGED overlay
    \/ /\ overlay' = File(BlobContents)
       /\ state' = setMaterialized(s)
       /\ ops' = [ops EXCEPT ![p].pc = "fn", ![p].blob = "blob", ![p].scopeExit = TRUE]
       /\ UNCHANGED lock

\* FileInode::materializeNow on the locked state s: createFile may throw
\* before the state changes; otherwise the overlay holds the blob, the state
\* is materialized and the caller arms SCOPE_EXIT { materializeInParent(); }.
materializeNow(p, s) ==
    \/ /\ state' = s
       /\ lock' = NoHolder
       /\ ops' = [ops EXCEPT ![p].pc = "done", ![p].result = Failure("createFile")]
       /\ UNCHANGED overlay
    \/ /\ overlay' = File(BlobContents)
       /\ state' = setMaterialized(s)
       /\ ops' = [ops EXCEPT ![p].pc = "fn", ![p].blob = "blob", ![p].scopeExit = TRUE]
       /\ UNCHANGED lock

\* FileInode::runWhileMaterialized, from the locked state to fn or to the wait.
runWhileMaterialized(p) ==
    /\ ops[p].pc = "locked"
    /\ UsesRunWhileMaterialized(ops[p])
    /\ CASE state.tag = BLOB_NOT_LOADING ->
            /\ IF ops[p].blob # "nullptr"
               THEN materializeNow(p, state) /\ UNCHANGED <<loads, promises>>
               ELSE \E r \in getCachedBlob(state) :
                        IF r.blob # "nullptr"
                        THEN materializeNow(p, r.state) /\ UNCHANGED <<loads, promises>>
                        ELSE startLoadingData(p, r.state) /\ UNCHANGED overlay
            /\ UNCHANGED <<parentNotified, edenBug>>
         [] state.tag = BLOB_LOADING -> latchOnLoad(p)
         [] OTHER ->
            /\ InvokeFn(p, state, "nullptr")
            /\ UNCHANGED <<overlay, parentNotified, edenBug>>

\* A truncateAndRun that leaves the loading promise in the state.
takeLoadingPromise_forget(s) == NoPromise

\* loadingPromise = std::move(state->blobLoadingPromise)
takeLoadingPromise(s) == s.blobLoadingPromise

\* FileInode::truncateAndRun, from the locked state to fn. In the not
\* materialized cases createEmptyFile may throw before the state changes.
truncateAndRun(p) ==
    /\ ops[p].pc = "locked"
    /\ UsesTruncateAndRun(ops[p])
    /\ IF state.tag # MATERIALIZED_IN_OVERLAY
       THEN \/ /\ lock' = NoHolder
               /\ ops' = [ops EXCEPT ![p].pc = "done",
                                     ![p].result = Failure("createEmptyFile")]
               /\ UNCHANGED <<state, overlay>>
            \/ /\ overlay' = File(<<>>)
               /\ state' = [setMaterialized(state) EXCEPT
                                !.blobLoadingPromise =
                                    IF takeLoadingPromise(state) = NoPromise
                                    THEN @ ELSE NoPromise]
               /\ ops' = [ops EXCEPT ![p].pc = "fn",
                                     ![p].loadingPromise = takeLoadingPromise(state),
                                     ![p].scopeExit = TRUE]
               /\ UNCHANGED lock
       ELSE \/ /\ lock' = NoHolder
               /\ ops' = [ops EXCEPT ![p].pc = "done",
                                     ![p].result = Failure("truncate")]
               /\ UNCHANGED <<state, overlay>>
            \/ /\ overlay' = File(<<>>)
               /\ ops' = [ops EXCEPT ![p].pc = "fn"]
               /\ UNCHANGED <<state, lock>>
    /\ UNCHANGED <<loads, promises, parentNotified, edenBug>>

\* A continuation that returns with the state lock still held.
MaterializedFn_keepLock(p, kind) ==
    /\ ops[p].pc = "fn"
    /\ ops[p].kind = kind
    /\ lock' = lock
    /\ edenBug' = (edenBug \/ state.tag # MATERIALIZED_IN_OVERLAY)

\* XDCHECK_EQ(state->tag, MATERIALIZED_IN_OVERLAY) of the continuations.
MaterializedFn(p, kind) ==
    /\ ops[p].pc = "fn"
    /\ ops[p].kind = kind
    /\ lock' = NoHolder
    /\ edenBug' = (edenBug \/ state.tag # MATERIALIZED_IN_OVERLAY)

\* FileInode::writeImpl, the continuation of write.
writeImpl(p) ==
    /\ MaterializedFn(p, "write")
    /\ \/ /\ ops' = [ops EXCEPT ![p] = AfterFn(@, Failure("overlay"))]
          /\ UNCHANGED overlay
       \/ /\ overlay' = OverlayWrite(overlay, WriteData, ops[p].off)
          /\ ops' = [ops EXCEPT ![p] = AfterFn(@, ValueResult(Len(WriteData)))]
    /\ UNCHANGED <<state, loads, promises, parentNotified>>

\* The continuation of fallocate.
fallocateFn(p) ==
    /\ MaterializedFn(p, "fallocate")
    /\ \/ /\ ops' = [ops EXCEPT ![p] = AfterFn(@, Failure("overlay"))]
          /\ UNCHANGED overlay
       \/ /\ overlay' = OverlayFallocate(overlay, ops[p].off, ops[p].size)
          /\ ops' = [ops EXCEPT ![p] = AfterFn(@, ValueResult(0))]
    /\ UNCHANGED <<state, loads, promises, parentNotified>>

\* setAttrs, the continuation of setattr: truncate to desired.size when it
\* is set (throws upon error), modifyOrThrow, then the size of the file.
setAttrs(p) ==
    /\ MaterializedFn(p, "setattr")
    /\ LET resized == IF ops[p].size # NoSize
                      THEN OverlayTruncate(overlay, ops[p].size)
                      ELSE overlay
       IN \/ /\ ops[p].size # NoSize
             /\ ops' = [ops EXCEPT ![p] = AfterFn(@, Failure("overlay"))]
             /\ UNCHANGED overlay
          \/ /\ overlay' = resized
             /\ ops' = [ops EXCEPT ![p] = AfterFn(@, Failure("metadata"))]
          \/ /\ overlay' = resized
             /\ ops' = [ops EXCEPT ![p] = AfterFn(@, ValueResult(Len(resized.bytes)))]
    /\ UNCHANGED <<state, loads, promises, parentNotified>>

\* A scope exit that publishes to the parent and drops the loading promise.
materializeInParent_dropPromise(p) ==
    /\ ops[p].pc = "publish"
    /\ parentNotified' = parentNotified + 1
    /\ ops' = [ops EXCEPT ![p].pc = "done"]
    /\ UNCHANGED <<state, lock, loads, promises, overlay, edenBug>>

\* SCOPE_EXIT { XCHECK(state.isNull()); materializeInParent(); }
materializeInParent(p) ==
    /\ ops[p].pc = "publish"
    /\ parentNotified' = parentNotified + 1
    /\ ops' = [ops EXCEPT ![p].pc =
                IF ops[p].loadingPromise # NoPromise THEN "fulfil" ELSE "done"]
    /\ UNCHANGED <<state, lock, loads, promises, overlay, edenBug>>

\* A scope exit that destroys the loading promise without fulfilling it.
fulfilWithNull_skip(p) ==
    /\ ops[p].pc = "fulfil"
    /\ ops' = [ops EXCEPT ![p].pc = "done", ![p].loadingPromise = NoPromise]
    /\ UNCHANGED <<state, lock, loads, promises, overlay, parentNotified, edenBug>>

\* SCOPE_EXIT { if (loadingPromise) loadingPromise->setValue(nullptr); }
fulfilWithNull(p) ==
    /\ ops[p].pc = "fulfil"
    /\ promises' = SetPromise(promises, ops[p].loadingPromise, "nullptr")
    /\ ops' = [ops EXCEPT ![p].pc = "done", ![p].loadingPromise = NoPromise]
    /\ UNCHANGED <<state, lock, loads, overlay, parentNotified, edenBug>>

(***************************************************************************)
(* stat                                                                    *)
(***************************************************************************)
\* FileInode::stat under the state lock: the size comes from the overlay,
\* from nonMaterializedState->size, or from getBlobSize after the unlock.
stat(p) ==
    /\ ops[p].pc = "locked"
    /\ ops[p].kind = "stat"
    /\ lock' = NoHolder
    /\ IF isMaterialized(state)
       THEN ops' = [ops EXCEPT ![p].pc = "done",
                               ![p].result = ValueResult(Len(overlay.bytes))]
       ELSE IF state.nonMaterializedState.size # kUnknownSize
       THEN ops' = [ops EXCEPT ![p].pc = "done",
                               ![p].result = ValueResult(state.nonMaterializedState.size)]
       ELSE ops' = [ops EXCEPT ![p].pc = "sizeFut", ![p].waits = @ + 1]
    /\ UNCHANGED <<state, loads, promises, overlay, parentNotified, edenBug>>

\* A continuation of sizeFut that returns the size without storing it.
statSizeReady_noMemo(p) ==
    /\ ops[p].pc = "sizeFut"
    /\ \/ ops' = [ops EXCEPT ![p].pc = "done", ![p].result = Failure("getBlobSize")]
       \/ /\ lock = NoHolder
          /\ ops' = [ops EXCEPT ![p].pc = "done", ![p].result = ValueResult(BlobSize)]
    /\ UNCHANGED <<state, lock, loads, promises, overlay, parentNotified, edenBug>>

\* The thenValue continuation of sizeFut; skipped when getBlobSize failed.
statSizeReady(p) ==
    /\ ops[p].pc = "sizeFut"
    /\ \/ /\ ops' = [ops EXCEPT ![p].pc = "done", ![p].result = Failure("getBlobSize")]
          /\ UNCHANGED state
       \/ /\ lock = NoHolder
          /\ state' = IF isMaterialized(state) THEN state
                      ELSE [state EXCEPT !.nonMaterializedState.size = BlobSize]
          /\ ops' = [ops EXCEPT ![p].pc = "done", ![p].result = ValueResult(BlobSize)]
    /\ UNCHANGED <<lock, loads, promises, overlay, parentNotified, edenBug>>

(***************************************************************************)
(* getSha1, fsync and isSameAs                                             *)
(***************************************************************************)
\* The ObjectId of the inode's blob, and the objects of the store: a second
\* id of the same contents (ids also cover history metadata), and an id of
\* other contents.
InodeHash == "h1"

Objects == [h \in {"h1", "h2", "h3"} |-> IF h = "h3" THEN <<9>> ELSE BlobContents]

\* Hash20::sha1 of a byte sequence: different contents, different digests.
Sha1(bytes) == <<"sha1", bytes>>

\* treeEntryTypeFromMode(getMetadataLocked(*state).mode)
InodeEntryType == "REGULAR_FILE"

EntryTypes == {"REGULAR_FILE", "EXECUTABLE_FILE"}

\* The calls of the specification of the queries: the four queries, and a
\* read and two setattrs to move the inode through its states.
QueryCalls ==
    [kind : {"stat", "getSha1", "fsync", "read"}, size : {0}, off : {0},
     id : {""}, entryType : {""}]
    \cup [kind : {"setattr"}, size : {0, NoSize}, off : {0}, id : {""}, entryType : {""}]
    \cup [kind : {"isSameAs"}, size : {0}, off : {0},
          id : DOMAIN Objects, entryType : EntryTypes]

\* A thread calls one of QueryCalls; every one of them begins by taking the
\* state lock (isSameAsFast with state_.rlock(), the others with LockedState).
CallQuery(p) ==
    /\ ops[p].pc = "idle"
    /\ \A q \in Procs : q < p => ops[q].pc # "idle"
    /\ lock = NoHolder
    /\ lock' = p
    /\ \E c \in QueryCalls :
        ops' = [ops EXCEPT ![p] = [IdleOp EXCEPT !.kind = c.kind,
                                                 !.size = c.size,
                                                 !.off = c.off,
                                                 !.id = c.id,
                                                 !.entryType = c.entryType,
                                                 !.pc = "locked"]]
    /\ UNCHANGED <<state, loads, promises, overlay, parentNotified, edenBug>>

\* FileInode::getSha1 on the locked state s: the digest the object store
\* has for the inode's hash, or the digest of the overlay file; either
\* lookup may fail.
Sha1Outcomes(s) ==
    {Failure("getSha1"),
     ValueResult(IF isMaterialized(s) THEN Sha1(overlay.bytes)
                 ELSE Sha1(Objects[InodeHash]))}

\* FileInode::getSha1 called by a thread.
getSha1(p) ==
    /\ ops[p].pc = "locked"
    /\ ops[p].kind = "getSha1"
    /\ lock' = NoHolder
    /\ \E r \in Sha1Outcomes(state) :
        ops' = [ops EXCEPT ![p].pc = "done", ![p].result = r]
    /\ UNCHANGED <<state, loads, promises, overlay, parentNotified, edenBug>>

\* An fsync that is forwarded to the overlay whatever the tag.
fsync_always(p) ==
    /\ ops[p].pc = "locked"
    /\ ops[p].kind = "fsync"
    /\ lock' = NoHolder
    /\ \E r \in {Failure("overlay"), ValueResult(1)} :
        ops' = [ops EXCEPT ![p].pc = "done", ![p].result = r]
    /\ UNCHANGED <<state, loads, promises, overlay, parentNotified, edenBug>>

\* FileInode::fsync: forwarded to the overlay when materialized. It returns
\* nothing; the value of the result records the calls made to the overlay.
fsync(p) ==
    /\ ops[p].pc = "locked"
    /\ ops[p].kind = "fsync"
    /\ lock' = NoHolder
    /\ IF isMaterialized(state)
       THEN \E r \in {Failure("overlay"), ValueResult(1)} :
                ops' = [ops EXCEPT ![p].pc = "done", ![p].result = r]
       ELSE ops' = [ops EXCEPT ![p].pc = "done", ![p].result = ValueResult(0)]
    /\ UNCHANGED <<state, loads, promises, overlay, parentNotified, edenBug>>

\* An isSameAsFast that takes a different hash for different contents.
isSameAsFast_hashDecides(s, blobID, entryType) ==
    IF entryType # InodeEntryType THEN "false"
    ELSE IF s.nonMaterializedState.has_value
    THEN (IF InodeHash = blobID THEN "true" ELSE "false")
    ELSE "nullopt"

\* FileInode::isSameAsFast(blobID, entryType) on the state s: "false",
\* "true", or "nullopt" when the digests have to be compared.
isSameAsFast(s, blobID, entryType) ==
    IF entryType # InodeEntryType THEN "false"
    ELSE IF s.nonMaterializedState.has_value /\ InodeHash = blobID THEN "true"
    ELSE "nullopt"

\* FileInode::isSameAs(blobID, entryType, ctx) up to the result of
\* isSameAsFast; the lock is released when isSameAsFast returns.
isSameAs(p) ==
    /\ ops[p].pc = "locked"
    /\ ops[p].kind = "isSameAs"
    /\ lock' = NoHolder
    /\ LET fast == isSameAsFast(state, ops[p].id, ops[p].entryType)
       IN ops' = [ops EXCEPT
                    ![p].pc = IF fast = "nullopt" THEN "slow" ELSE "done",
                    ![p].result = IF fast = "nullopt" THEN NoResult
                                  ELSE ValueResult(fast = "true")]
    /\ UNCHANGED <<state, loads, promises, overlay, parentNotified, edenBug>>

\* The slow path of isSameAs: getSha1 (which takes and releases the state
\* lock) and ObjectStore::getBlobSha1(blobID), compared when both are there.
isSameAsSlow(p) ==
    /\ ops[p].pc = "slow"
    /\ lock = NoHolder
    /\ \E f1 \in Sha1Outcomes(state),
          f2 \in {Failure("getBlobSha1"), ValueResult(Sha1(Objects[ops[p].id]))} :
        ops' = [ops EXCEPT
                    ![p].pc = "done",
                    ![p].result =
                        IF f1.status = "error" \/ f2.status = "error"
                        THEN ValueResult(FALSE)
                        ELSE ValueResult(f1.value = f2.value)]
    /\ UNCHANGED <<state, lock, loads, promises, overlay, parentNotified, edenBug>>

(***************************************************************************)
(* The specification                                                       *)
(***************************************************************************)
Next ==
    \/ \E p \in Procs : Call(p) /\ UNCHANGED otherVars
    \/ \E p \in Procs : setattrDenied(p) /\ UNCHANGED otherVars
    \/ \E p \in Procs : Resume(p) /\ UNCHANGED otherVars
    \/ \E p \in Procs : runWhileDataLoaded(p) /\ UNCHANGED otherVars
    \/ \E p \in Procs : readFn(p) /\ UNCHANGED otherVars
    \/ \E p \in Procs : runWhileMaterialized(p) /\ UNCHANGED otherVars
    \/ \E p \in Procs : truncateAndRun(p) /\ UNCHANGED otherVars
    \/ \E p \in Procs : writeImpl(p) /\ UNCHANGED otherVars
    \/ \E p \in Procs : fallocateFn(p) /\ UNCHANGED otherVars
    \/ \E p \in Procs : setAttrs(p) /\ UNCHANGED otherVars
    \/ \E p \in Procs : materializeInParent(p) /\ UNCHANGED otherVars
    \/ \E p \in Procs : fulfilWithNull(p) /\ UNCHANGED otherVars
    \/ \E p \in Procs : stat(p) /\ UNCHANGED otherVars
    \/ \E p \in Procs : statSizeReady(p) /\ UNCHANGED otherVars
    \/ \E i \in 1..Len(loads) : blobLoaded(i) /\ UNCHANGED otherVars
    \/ \E i \in 1..Len(loads) : fulfilLoad(i) /\ UNCHANGED otherVars

Spec == Init /\ [][Next]_vars

\* The queries next to a read and the setattrs.
NextQueries ==
    \/ \E p \in Procs : CallQuery(p) /\ UNCHANGED otherVars
    \/ \E p \in Procs : getSha1(p) /\ UNCHANGED otherVars
    \/ \E p \in Procs : fsync(p) /\ UNCHANGED otherVars
    \/ \E p \in Procs : isSameAs(p) /\ UNCHANGED otherVars
    \/ \E p \in Procs : isSameAsSlow(p) /\ UNCHANGED otherVars
    \/ \E p \in Procs : stat(p) /\ UNCHANGED otherVars
    \/ \E p \in Procs : statSizeReady(p) /\ UNCHANGED otherVars
    \/ \E p \in Procs : Resume(p) /\ UNCHANGED otherVars
    \/ \E p \in Procs : runWhileDataLoaded(p) /\ UNCHANGED otherVars
    \/ \E p \in Procs : readFn(p) /\ UNCHANGED otherVars
    \/ \E p \in Procs : runWhileMaterialized(p) /\ UNCHANGED otherVars
    \/ \E p \in Procs : truncateAndRun(p) /\ UNCHANGED otherVars
    \/ \E p \in Procs : setAttrs(p) /\ UNCHANGED otherVars
    \/ \E p \in Procs : materializeInParent(p) /\ UNCHANGED otherVars
    \/ \E p \in Procs : fulfilWithNull(p) /\ UNCHANGED otherVars
    \/ \E i \in 1..Len(loads) : blobLoaded(i) /\ UNCHANGED otherVars
    \/ \E i \in 1..Len(loads) : fulfilLoad(i) /\ UNCHANGED otherVars

SpecQueries == Init /\ [][NextQueries]_vars


(***************************************************************************)
(* Properties                                                              *)
(***************************************************************************)
Materialized == state.tag = MATERIALIZED_IN_OVERLAY

LoadIds == 1..Len(loads)

Done(p) == ops[p].pc = "done"

Succeeded(p) == Done(p) /\ ops[p].result.status = "ok"

Failed(p) == ops[p].result.status = "error"

\* The table of the state record: what each tag says about the other fields.
StateTable(s) ==
    /\ s.tag \in {BLOB_NOT_LOADING, BLOB_LOADING, MATERIALIZED_IN_OVERLAY}
    /\ s.tag = BLOB_NOT_LOADING =>
        s.nonMaterializedState.has_value /\ s.blobLoadingPromise = NoPromise
    /\ s.tag = BLOB_LOADING =>
        /\ s.nonMaterializedState.has_value
        /\ s.blobLoadingPromise # NoPromise
        /\ s.readByteRanges = {}
    /\ s.tag = MATERIALIZED_IN_OVERLAY =>
        /\ ~s.nonMaterializedState.has_value
        /\ s.blobLoadingPromise = NoPromise
        /\ s.readByteRanges = {}

\* C1: whenever the state lock is free (that is, after every release of it,
\* in any interleaving of the operations and the load completions) the state
\* record satisfies the table: NOT_LOADING has nonMaterialized and no
\* promise; LOADING has nonMaterialized, a promise and no byte ranges;
\* MATERIALIZED has no nonMaterialized, no promise and no byte ranges.
C1_TableAtUnlock == lock = NoHolder => StateTable(state)

\* A second load is in flight with the lock free: the first one completed,
\* and the ranges read in between were dropped again.
C1_Witness ==
    /\ lock = NoHolder
    /\ state.tag = BLOB_LOADING
    /\ Len(loads) = 2
    /\ \E p \in Procs : Succeeded(p) /\ ops[p].kind = "read"

\* C2: once the tag is MATERIALIZED no step of any operation or completion
\* handler changes it, a load that completes after the materialization
\* included.
C2_NoWayBack == [][Materialized => state'.tag = MATERIALIZED_IN_OVERLAY]_vars

\* A load started before the materialization has completed after it.
C2_Witness ==
    /\ Materialized
    /\ \E i \in LoadIds : loads[i].pc = "done" /\ loads[i].promise = NoPromise
    /\ ~edenBug

\* Who still has to fulfil promise i: the completion handler of its load
\* (which will find it in the state, or has taken it out), or a
\* truncateAndRun that moved it into its local loadingPromise.
Fulfillers(i) ==
    (IF state.blobLoadingPromise = i /\ loads[i].pc = "inflight" THEN {"state"} ELSE {})
    \cup (IF loads[i].pc = "fulfil" /\ loads[i].promise = i THEN {"load"} ELSE {})
    \cup {p \in Procs : ops[p].loadingPromise = i}

\* C3: every loading promise is fulfilled exactly once: it is never set
\* twice; while it is unset exactly one party is due to set it; once it is
\* set nobody is; a blob or an error comes from the completion handler that
\* found LOADING, a null blob from truncateAndRun, and never from both.
C3_FulfilledOnce ==
    \A i \in 1..Len(promises) :
        /\ promises[i].sets <= 1
        /\ promises[i].sets = 0 => Cardinality(Fulfillers(i)) = 1
        /\ promises[i].sets = 1 => Fulfillers(i) = {}
        /\ promises[i].value \in {"blob", "error"} =>
            loads[i].promise = i /\ loads[i].pc = "done"
        /\ promises[i].value = "nullptr" => loads[i].promise = NoPromise

\* truncateAndRun has fulfilled a promise with null and the load it raced
\* with has completed without touching it.
C3_Witness ==
    \E i \in 1..Len(promises) :
        /\ promises[i].value = "nullptr"
        /\ loads[i].pc = "done"
        /\ \E p \in Procs : ops[p].future = i /\ Done(p)

\* C4: an operation that is suspended, on a loading promise or on the
\* object store's size future, does not hold the state lock.
C4_NoLockWhileSuspended ==
    \A p \in Procs : ops[p].pc \in {"waiting", "sizeFut"} => lock # p

\* One operation waits for the load and another one for the blob's size.
C4_Witness ==
    \E p, q \in Procs :
        /\ ops[p].pc = "waiting"
        /\ ops[q].pc = "sizeFut"
        /\ state.tag = BLOB_LOADING

Outstanding == {i \in LoadIds : loads[i].pc = "inflight"}

FullRead(p) == ops[p].kind = "read" /\ ops[p].size = 3 /\ ops[p].off = 0

C6_FnPrecondition ==
    \A p \in Procs :
        (ops[p].pc = "fn" /\ ops[p].kind = "read") =>
            /\ lock = p
            /\ state.tag \in {BLOB_NOT_LOADING, MATERIALIZED_IN_OVERLAY}
            /\ state.tag = BLOB_NOT_LOADING => ops[p].blob # "nullptr"

\* A subscriber resumed with the null sentinel is about to run fn.
C6_Witness ==
    \E p \in Procs :
        /\ ops[p].pc = "fn"
        /\ ops[p].kind = "read"
        /\ ops[p].future # NoPromise
        /\ promises[ops[p].future].value = "nullptr"

ResumedWithNull(p) ==
    /\ ops[p].future # NoPromise
    /\ promises[ops[p].future].value = "nullptr"

TruncatingSetattr(p) == ops[p].kind = "setattr" /\ ops[p].size = 0

\* Beside the read p only truncating setattrs, reads and stats were called,
\* and one of the setattrs materialized the inode.
ReadRacesTruncate(p) ==
    /\ ops[p].kind = "read"
    /\ Succeeded(p)
    /\ \A q \in Procs \ {p} :
        ops[q].kind \in {"none", "read", "stat"} \/ TruncatingSetattr(q)
    /\ \E q \in Procs : TruncatingSetattr(q) /\ ops[q].scopeExit

\* C7 as stated: a read resumed with the null blob returns an empty buffer
\* with eof = true, and a read concurrent with the truncation returns the
\* blob's bytes or the empty result with eof = true.
C7_Original ==
    \A p \in Procs :
        ReadRacesTruncate(p) =>
            /\ ResumedWithNull(p) => ops[p].result = ReadResult(<<>>, TRUE)
            /\ ops[p].result \in
                {BlobRead(ops[p].size, ops[p].off), ReadResult(<<>>, TRUE)}

\* C7 (amended): a read resumed with the null blob returns an empty buffer
\* with eof = true exactly when it asked for at least one byte (a read of
\* size 0 gets eof = false), and a read concurrent with the truncation
\* returns the blob's bytes or that empty result.
C7_ReadRacingTruncate ==
    \A p \in Procs :
        ReadRacesTruncate(p) =>
            /\ ResumedWithNull(p) =>
                ops[p].result = ReadResult(<<>>, ops[p].size # 0)
            /\ ops[p].result \in
                {BlobRead(ops[p].size, ops[p].off),
                 ReadResult(<<>>, ops[p].size # 0)}

\* A read of size 0 was waiting when the truncation materialized the inode.
C7_Witness ==
    \E p \in Procs :
        /\ ReadRacesTruncate(p)
        /\ ResumedWithNull(p)
        /\ ops[p].size = 0

\* C8: a setattr to size 0 never waits on a loading promise and never
\* issues getBlob; it holds the lock from its call until its continuation
\* returns; its continuation runs on a materialized inode with an empty
\* overlay file, and leaves it so when it releases the lock.
C8_TruncateNeverFetches ==
    /\ [](\A p \in Procs :
            TruncatingSetattr(p) =>
                /\ ops[p].pc # "waiting"
                /\ ops[p].future = NoPromise
                /\ \A i \in LoadIds : loads[i].issuer # p
                /\ ops[p].pc \in {"locked", "fn"} => lock = p
                /\ ops[p].pc = "fn" => Materialized /\ overlay = File(<<>>))
    /\ [][\A p \in Procs :
            (TruncatingSetattr(p) /\ ops[p].pc = "fn" /\ ops'[p].pc # "fn") =>
                /\ state'.tag = MATERIALIZED_IN_OVERLAY
                /\ overlay' = File(<<>>)
                /\ lock' = NoHolder]_vars

\* A setattr to size 0 has succeeded on an inode whose blob was loading.
C8_Witness ==
    \E p \in Procs :
        /\ TruncatingSetattr(p)
        /\ Succeeded(p)
        /\ ops[p].scopeExit
        /\ \E i \in 1..Len(promises) : promises[i].value = "nullptr"
        /\ overlay = File(<<>>)

\* The failures raised before the continuation of an operation runs.
EarlyCauses ==
    {"EPERM", "getBlob", "load", "getBlobSize",
     "createFile", "createEmptyFile", "truncate"}

\* The part of the state C9 speaks of.
Core(s) == <<s.tag, s.nonMaterializedState, s.blobLoadingPromise>>

\* C9 as stated: an operation that ends with an exception has not
\* transitioned the inode to MATERIALIZED.
C9_Original == \A p \in Procs : (Done(p) /\ Failed(p)) => ~ops[p].scopeExit

\* C9 (amended): an operation that fails before its continuation runs has
\* not materialized the inode, and the step in which it fails leaves tag,
\* nonMaterialized and loadingPromise as they were; an operation that fails
\* after it materialized the inode failed in its continuation, and the
\* inode stays MATERIALIZED with nonMaterialized and loadingPromise absent.
C9_FailureAndMutation ==
    /\ [](\A p \in Procs :
            Failed(p) =>
                /\ ops[p].result.cause \in EarlyCauses => ~ops[p].scopeExit
                /\ ops[p].scopeExit =>
                    /\ ops[p].result.cause \in {"overlay", "metadata"}
                    /\ Materialized
                    /\ ~state.nonMaterializedState.has_value
                    /\ state.blobLoadingPromise = NoPromise)
    /\ [][\A p \in Procs :
            (/\ ~Failed(p)
             /\ ops'[p].result.status = "error"
             /\ ops'[p].result.cause \in EarlyCauses)
            => Core(state') = Core(state)]_vars

\* An operation has failed in its continuation after materializing.
C9_Witness ==
    \E p \in Procs :
        /\ Done(p)
        /\ Failed(p)
        /\ ops[p].scopeExit
        /\ ops[p].kind = "write"
        /\ Materialized

\* C10: the completion of a failed load, found in LOADING, leaves the tag
\* NOT_LOADING with no promise and no interest handle and the lock free;
\* every subscriber of a promise that holds the error fails with it once it
\* is resumed; and LOADING always has its load's completion ahead, so a
\* later operation starts from NOT_LOADING and may issue a new getBlob.
C10_LoadFailure ==
    /\ [](/\ \A p \in Procs :
                (/\ ops[p].future # NoPromise
                 /\ promises[ops[p].future].value = "error"
                 /\ ops[p].pc # "waiting")
                => Done(p) /\ ops[p].result = Failure("load")
          /\ state.tag = BLOB_LOADING =>
                /\ state.blobLoadingPromise \in LoadIds
                /\ loads[state.blobLoadingPromise].pc = "inflight")
    /\ [][\A i \in LoadIds :
            (/\ loads[i].pc = "inflight"
             /\ loads'[i].pc = "fulfil"
             /\ loads'[i].value = "error")
            => /\ state'.tag = BLOB_NOT_LOADING
               /\ state'.blobLoadingPromise = NoPromise
               /\ ~state'.interestHandle
               /\ lock' = NoHolder]_vars

\* A load failed, its subscriber got the error, and a later operation has
\* issued a second getBlob.
C10_Witness ==
    /\ Len(loads) = 2
    /\ promises[1].value = "error"
    /\ \E p \in Procs : ops[p].future = 1 /\ ops[p].result = Failure("load")
    /\ loads[2].pc = "inflight"

\* C11: with the tag MATERIALIZED the interest handle is empty, as are
\* nonMaterialized, loadingPromise and readByteRanges; and a load that
\* completes on a materialized inode leaves the whole state record as it
\* found it, whether the load succeeded or failed.
C11_MaterializedHoldsNothing ==
    /\ [](Materialized =>
            /\ ~state.interestHandle
            /\ ~state.nonMaterializedState.has_value
            /\ state.blobLoadingPromise = NoPromise
            /\ state.readByteRanges = {})
    /\ [][\A i \in LoadIds :
            (Materialized /\ loads[i].pc = "inflight" /\ loads'[i].pc # "inflight")
            => state' = state]_vars

\* A setattr to size 0 has materialized the inode while its blob was
\* loading, and the load has completed on the materialized inode.
C11_Witness ==
    /\ Materialized
    /\ ~state.interestHandle
    /\ \E i \in LoadIds : loads[i].pc = "done" /\ loads[i].issuedIn = BLOB_NOT_LOADING
                          /\ loads[i].promise = NoPromise
    /\ \E p \in Procs : Succeeded(p) /\ ops[p].scopeExit /\ ops[p].kind = "setattr"
                        /\ ops[p].size = 0

\* The byte positions of [begin, end).
Range(begin, end) == {i \in 0..(BlobSize + 4) : begin <= i /\ i < end}

\* C12: a read(size, off) served from the blob adds [off, off + size) to
\* readByteRanges; if the ranges then cover [0, blobSize) the interest
\* handle is released and the ranges are cleared, otherwise the handle is
\* left as it was and the accumulated ranges are kept.
C12_ReadCoverage ==
    [][\A p \in Procs :
        (/\ ops[p].pc = "fn"
         /\ ops[p].kind = "read"
         /\ state.tag = BLOB_NOT_LOADING
         /\ ops'[p].pc # "fn"
         /\ ops'[p].result.status = "ok")
        => LET added == state.readByteRanges
                            \cup Range(ops'[p].off, ops'[p].off + ops'[p].size)
           IN IF Range(0, BlobSize) \subseteq added
              THEN ~state'.interestHandle /\ state'.readByteRanges = {}
              ELSE /\ state'.interestHandle = state.interestHandle
                   /\ state'.readByteRanges = added]_vars

\* A read of the second byte alone was served from the blob: its range is
\* remembered and the interest handle is still held.
C12_Witness ==
    /\ state.tag = BLOB_NOT_LOADING
    /\ state.interestHandle
    /\ state.readByteRanges = {1}
    /\ \E p \in Procs :
        Succeeded(p) /\ ops[p].kind = "read" /\ ops[p].size = 1 /\ ops[p].off = 1

\* The first and only call on a non-materialized inode was a read of more
\* than the whole blob from offset 0, and it has returned.
FirstReadOfAll(p) ==
    /\ FullRead(p)
    /\ Succeeded(p)
    /\ ~Materialized
    /\ \A q \in Procs \ {p} : ops[q].pc = "idle"

\* C13 as stated: after that read the result is the blob's bytes with
\* eof = true, the tag is NOT_LOADING, the interest handle is released and
\* readByteRanges is {[0, blobSize)}.
C13_Original ==
    \A p \in Procs :
        FirstReadOfAll(p) =>
            /\ ops[p].result = ReadResult(BlobContents, TRUE)
            /\ state.tag = BLOB_NOT_LOADING
            /\ ~state.interestHandle
            /\ state.readByteRanges = Range(0, BlobSize)

\* C13 (amended): after that read the result is the blob's bytes with
\* eof = true, the tag is NOT_LOADING, the interest handle is released and
\* readByteRanges is empty: the ranges are cleared with the handle.
C13_FirstRead ==
    \A p \in Procs :
        FirstReadOfAll(p) =>
            /\ ops[p].result = ReadResult(BlobContents, TRUE)
            /\ state.tag = BLOB_NOT_LOADING
            /\ state.blobLoadingPromise = NoPromise
            /\ ~state.interestHandle
            /\ state.readByteRanges = {}

\* The read has returned after the load it started installed a handle.
C13_Witness ==
    \E p \in Procs :
        /\ FirstReadOfAll(p)
        /\ ops[p].waits = 1
        /\ Len(loads) = 1
        /\ loads[1].value = "blob"

\* The bytes of the file as a caller sees them: the overlay file once the
\* inode is materialized, the blob before.
Contents == IF Materialized THEN overlay.bytes ELSE BlobContents

\* The bytes of the file from off to its end.
FromOffset(off) == SubSeq(Contents, off + 1, Len(Contents))

\* This step is the continuation of read p returning a result, for a range
\* that extends past the end of the file.
ReadsPastEnd(p) ==
    /\ ops[p].pc = "fn"
    /\ ops[p].kind = "read"
    /\ ops'[p].pc # "fn"
    /\ ops'[p].result.status = "ok"
    /\ ops'[p].off + ops'[p].size > Len(Contents)

\* C14 as stated: such a read returns the bytes from off to the end of the
\* file with eof = true, materialized or not.
C14_Original ==
    [][\A p \in Procs :
        ReadsPastEnd(p) => ops'[p].result = ReadResult(FromOffset(ops'[p].off), TRUE)]_vars

\* C14 (amended): such a read returns the bytes from off to the end of the
\* file; on a non-materialized inode eof is true; on a materialized inode
\* eof is true only when the read asked for at least one byte and got none.
C14_ReadPastEnd ==
    [][\A p \in Procs :
        ReadsPastEnd(p) =>
            LET buf == FromOffset(ops'[p].off)
            IN ops'[p].result =
                ReadResult(buf, IF Materialized
                                THEN ops'[p].size # 0 /\ buf = <<>>
                                ELSE TRUE)]_vars

\* A read of more than the whole file got the bytes of a materialized file
\* without the eof flag.
C14_Witness ==
    \E p \in Procs :
        /\ Succeeded(p)
        /\ FullRead(p)
        /\ Materialized
        /\ ops[p].result.buf # <<>>
        /\ Len(ops[p].result.buf) < ops[p].size
        /\ ~ops[p].result.eof

StatOp(p) == ops[p].kind = "stat"

\* The stats that have asked the object store for the blob's size.
SizeRequests == {p \in Procs : StatOp(p) /\ ops[p].waits > 0}

\* C15 as stated: whatever stats are called, and none of them failing,
\* getBlobSize is requested at most once.
C15_Original == (\A p \in Procs : ~Failed(p)) => Cardinality(SizeRequests) <= 1

\* C15 (amended): once a stat has returned the size of a non-materialized
\* inode the size is stored and stays stored; getBlobSize is requested only
\* by a stat that finds the inode non-materialized with the size unknown,
\* hence by no stat called after a stat has succeeded. (Stats that overlap,
\* or follow a failed lookup, each request it.)
C15_StatMemoizes ==
    /\ [](\A p \in Procs :
            (StatOp(p) /\ Succeeded(p) /\ ~Materialized) =>
                state.nonMaterializedState.size = BlobSize)
    /\ [][/\ (~Materialized' /\ state.nonMaterializedState.size # kUnknownSize)
                => state'.nonMaterializedState.size = state.nonMaterializedState.size
          /\ \A p \in Procs :
                (StatOp(p) /\ ops[p].waits = 0 /\ ops'[p].waits > 0) =>
                    /\ ~Materialized
                    /\ state.nonMaterializedState.size = kUnknownSize
                    /\ ops[p].pc = "locked"
                    /\ \A q \in Procs : ~(StatOp(q) /\ Succeeded(q))]_vars

\* A stat fetched the size and a later stat returned it without asking.
C15_Witness ==
    \E p, q \in Procs :
        /\ StatOp(p) /\ Succeeded(p) /\ ops[p].waits = 1
        /\ StatOp(q) /\ Succeeded(q) /\ ops[q].waits = 0
        /\ ops[p].result = ops[q].result
        /\ ~Materialized

Mutator(p) == ops[p].kind \in {"write", "setattr", "fallocate"}

\* C16: the continuation of a write, a setattr or a fallocate runs only on
\* a materialized inode, with the state lock held by its caller (so no
\* XDCHECK of the tag fires), and each of them that has succeeded leaves the
\* tag MATERIALIZED.
C16_MutatorsMaterialize ==
    /\ ~edenBug
    /\ \A p \in Procs :
        Mutator(p) =>
            /\ ops[p].pc = "fn" => Materialized /\ lock = p
            /\ ops[p].result.status = "ok" => Materialized

\* A write that found the blob loading has waited for it, materialized the
\* inode and succeeded, next to another mutator.
C16_Witness ==
    \E p, q \in Procs :
        /\ ops[p].kind = "write"
        /\ Succeeded(p)
        /\ ops[p].waits > 0
        /\ ops[p].scopeExit
        /\ p # q
        /\ Mutator(q)
        /\ Succeeded(q)

\* The operations that materialized the inode: their SCOPE_EXIT is armed.
Armed == {p \in Procs : ops[p].scopeExit}

\* C17: materializeInParent has run once for each operation that moved
\* the inode to MATERIALIZED and has left its continuation, by success or
\* by exception, and for no other; it runs after the state lock is
\* released; an operation arms it in the very step that changes the tag to
\* MATERIALIZED, so not when it finds the inode materialized and not when
\* the materialization fails; and an inode is materialized at most once.
C17_ParentToldOnce ==
    /\ [](/\ Cardinality(Armed) <= 1
          /\ parentNotified =
                Cardinality({p \in Armed : ops[p].pc \in {"fulfil", "done"}})
          /\ \A p \in Armed :
                /\ Materialized
                /\ ops[p].pc \in {"fn", "publish", "fulfil", "done"}
                /\ ops[p].pc = "publish" => lock # p)
    /\ [][/\ (~Materialized /\ Materialized') =>
                \E p \in Procs : ~ops[p].scopeExit /\ ops'[p].scopeExit
          /\ \A p \in Procs :
                (~ops[p].scopeExit /\ ops'[p].scopeExit) =>
                    ~Materialized /\ Materialized']_vars

\* A setattr to size 0 materialized the inode, failed in its continuation,
\* and the parent has been told once.
C17_Witness ==
    \E p \in Procs :
        /\ TruncatingSetattr(p)
        /\ Done(p)
        /\ Failed(p)
        /\ p \in Armed
        /\ parentNotified = 1
        /\ \E q \in Procs \ {p} : Mutator(q) /\ Succeeded(q)

(***************************************************************************)
(* The file as one caller at a time sees it: whether it is materialized    *)
(* and its bytes. SeqApply is the outcome of a successful operation o run  *)
(* alone on the file a.                                                    *)
(***************************************************************************)
Abs == [mat |-> Materialized, bytes |-> Contents]

BlobAbs == [mat |-> FALSE, bytes |-> BlobContents]

SeqApply(a, o) ==
    CASE o.kind = "read" ->
            [abs |-> a,
             result |->
                IF a.mat
                THEN LET buf == OverlayRead(File(a.bytes), o.size, o.off)
                     IN ReadResult(buf, o.size # 0 /\ buf = <<>>)
                ELSE BlobRead(o.size, o.off)]
      [] o.kind = "stat" ->
            [abs |-> a, result |-> ValueResult(Len(a.bytes))]
      [] o.kind = "write" ->
            [abs |-> [mat |-> TRUE,
                      bytes |-> OverlayWrite(File(a.bytes), WriteData, o.off).bytes],
             result |-> ValueResult(Len(WriteData))]
      [] o.kind = "fallocate" ->
            [abs |-> [mat |-> TRUE,
                      bytes |-> OverlayFallocate(File(a.bytes), o.off, o.size).bytes],
             result |-> ValueResult(0)]
      [] OTHER ->
            LET bytes == IF o.size = NoSize THEN a.bytes
                         ELSE OverlayTruncate(File(a.bytes), o.size).bytes
            IN [abs |-> [mat |-> TRUE, bytes |-> bytes],
                result |-> ValueResult(Len(bytes))]

\* The operations from p on, run one at a time in the order of their calls
\* (a call begins by taking the state lock) on the file a, return the
\* results they returned here; abs is the file they leave.
RECURSIVE SeqRun(_, _)
SeqRun(a, p) ==
    IF p > NumOps THEN [ok |-> TRUE, abs |-> a]
    ELSE LET r == SeqApply(a, ops[p])
         IN IF r.result = ops[p].result THEN SeqRun(r.abs, p + 1)
            ELSE [ok |-> FALSE, abs |-> a]

\* Every operation was called on an inode that started from its blob, and
\* every one of them has succeeded.
AllSucceededFromBlob ==
    /\ \A p \in Procs : Succeeded(p)
    /\ Len(loads) > 0 \/ ~Materialized

\* C18 as stated: the results and the final content equal those of running
\* the operations one at a time in the order in which they first took the
\* state lock, which is the order of their calls.
C18_Original ==
    AllSucceededFromBlob =>
        LET r == SeqRun(BlobAbs, 1)
        IN r.ok /\ r.abs = Abs

\* C18 (amended): every operation takes effect in one step, made while it
\* holds the state lock: a read, a write, a setattr and a fallocate when the
\* continuation returns (under the last lock acquisition of the operation),
\* a stat when it reads the size or requests it (under its first). Its
\* result is that of running it alone on the file as it is in that step,
\* and the file changes in no other way: materialization keeps the bytes,
\* and the truncation of a setattr to size 0 happens under the same hold of
\* the lock as its continuation.
C18_Linearizable ==
    [][/\ \A p \in Procs :
            /\ (ops[p].pc = "fn" /\ ops'[p].pc # "fn" /\ ops'[p].result.status = "ok")
                => /\ lock = p
                   /\ ops'[p].result = SeqApply(Abs, ops'[p]).result
                   /\ Abs' = SeqApply(Abs, ops'[p]).abs
            /\ (StatOp(p) /\ ops[p].pc = "locked" /\ ops'[p].pc = "done")
                => /\ lock = p
                   /\ ops'[p].result = SeqApply(Abs, ops[p]).result
                   /\ Abs' = Abs
            /\ (StatOp(p) /\ ops[p].pc = "locked" /\ ops'[p].pc = "sizeFut")
                => lock = p /\ Abs = BlobAbs /\ Abs' = Abs
            /\ (ops[p].pc = "sizeFut" /\ ops'[p].result.status = "ok")
                => /\ ops'[p].result = SeqApply(BlobAbs, ops[p]).result
                   /\ Abs' = Abs
       /\ Contents' # Contents =>
            \E p \in Procs :
                /\ lock = p
                /\ \/ Mutator(p) /\ ops[p].pc = "fn"
                   \/ TruncatingSetattr(p) /\ ops[p].pc = "locked" /\ Contents' = <<>>
       /\ Materialized' # Materialized =>
            \E p \in Procs : lock = p /\ Mutator(p) /\ ops[p].pc = "locked"]_vars

\* A read called before a setattr to size 0 took effect after it: it was
\* waiting for the blob, was resumed with null and read the empty file.
C18_Witness ==
    \E p, q \in Procs :
        /\ p < q
        /\ ops[p].kind = "read"
        /\ Succeeded(p)
        /\ ResumedWithNull(p)
        /\ ops[p].size > 0
        /\ ops[p].result = ReadResult(<<>>, TRUE)
        /\ TruncatingSetattr(q)
        /\ Succeeded(q)

QueryKinds == {"stat", "getSha1", "fsync", "isSameAs"}

\* C19: no step of a stat, a getSha1, an fsync or an isSameAs changes the
\* tag, installs or fulfils a loading promise, issues getBlob or touches
\* the overlay file; none of them ever waits on a loading promise; and an
\* fsync on a non-materialized inode makes no call to the overlay.
C19_QueriesFrame ==
    /\ [](\A p \in Procs :
            ops[p].kind \in QueryKinds =>
                /\ ops[p].future = NoPromise
                /\ ops[p].loadingPromise = NoPromise
                /\ ~ops[p].scopeExit
                /\ \A i \in LoadIds : loads[i].issuer # p)
    /\ [][\A p \in Procs :
            (ops'[p] # ops[p] /\ ops'[p].kind \in QueryKinds) =>
                /\ state'.tag = state.tag
                /\ state'.blobLoadingPromise = state.blobLoadingPromise
                /\ loads' = loads
                /\ promises' = promises
                /\ overlay' = overlay
                /\ parentNotified' = parentNotified
                /\ (ops'[p].kind = "fsync" /\ ops'[p].pc = "done" /\ ~Materialized)
                    => ops'[p].result = ValueResult(0)]_vars

\* An fsync and a getSha1 have returned on an inode that is not
\* materialized: there is still no overlay file.
C19_Witness ==
    \E p, q \in Procs :
        /\ ops[p].kind = "fsync"
        /\ Succeeded(p)
        /\ ops[q].kind = "getSha1"
        /\ Succeeded(q)
        /\ state.tag = BLOB_NOT_LOADING
        /\ overlay = NoFile

\* The digests isSameAs(id, entryType) compares on its slow path.
SameSha1(id) == Sha1(Contents) = Sha1(Objects[id])

\* C20: isSameAs(id, entryType) returns false, in its first step, when
\* entryType is not the inode's type; returns true, in its first step, when
\* the types match and the inode is non-materialized with the hash id; in
\* every other case it goes on to compare the digest of the inode with the
\* digest of id and returns whether they are equal, or false when a digest
\* could not be fetched.
C20_IsSameAs ==
    [][\A p \in Procs :
        /\ (ops[p].kind = "isSameAs" /\ ops[p].pc = "locked" /\ ops'[p].pc # "locked")
            => IF ops[p].entryType # InodeEntryType
               THEN ops'[p].pc = "done" /\ ops'[p].result = ValueResult(FALSE)
               ELSE IF ~Materialized /\ ops[p].id = InodeHash
               THEN ops'[p].pc = "done" /\ ops'[p].result = ValueResult(TRUE)
               ELSE ops'[p].pc = "slow"
        /\ (ops[p].pc = "slow" /\ ops'[p].pc # "slow")
            => /\ ops'[p].pc = "done"
               /\ ops'[p].result \in
                    {ValueResult(FALSE), ValueResult(SameSha1(ops[p].id))}]_vars

\* isSameAs was asked about another id of the same contents, of the inode's
\* type, and has answered true after comparing the digests.
C20_Witness ==
    \E p \in Procs :
        /\ ops[p].kind = "isSameAs"
        /\ ops[p].id = "h2"
        /\ ops[p].entryType = InodeEntryType
        /\ Done(p)
        /\ ops[p].result = ValueResult(TRUE)

(***************************************************************************)
(* HgProxyHash (eden/fs/store/hg/HgProxyHash.cpp): the object ids that     *)
(* stand for a (path, revision hash) pair, either embedding the revision   *)
(* hash or naming an entry of the LocalStore, and their resolution.        *)
(* Byte strings are sequences of numbers 0..255.                           *)
(***************************************************************************)
\* Length of the longest path handed to store().
MaxPathLen == 2

\* Hash20::RAW_SIZE
RAW_SIZE == 20

\* The first byte of an object id that embeds the revision hash.
TYPE_HG_ID_NO_PATH == 1

\* sizeof(uint32_t), the size of the path length in the serialized form
sizeofUint32 == 4

\* n bytes b
Fill(n, b) == [i \in 1..n |-> b]

\* kZeroHash
kZeroHash == Fill(RAW_SIZE, 0)

PathChars == {97, 98}

\* The paths and the revision hashes store() is called with.
Paths == UNION {[1..n -> PathChars] : n \in 0..MaxPathLen}

Hashes == {Fill(RAW_SIZE, 1), Fill(RAW_SIZE, 2)}

\* folly::Endian::big(uint32_t) appended byte by byte
BigEndian32(n) ==
    <<(n \div 16777216) % 256, (n \div 65536) % 256, (n \div 256) % 256, n % 256>>

\* memcpy of four bytes into a uint32_t, then Endian::big
ReadBigEndian32(bytes) ==
    bytes[1] * 16777216 + bytes[2] * 65536 + bytes[3] * 256 + bytes[4]

\* <hash_bytes><path_length><path>; XCHECK(pathLength <= UINT32_MAX) makes
\* the static_cast<uint32_t> keep the length.
serialize_littleEndian(path, hgRevHash) ==
    LET size == Len(path)
    IN  hgRevHash
        \o <<size % 256, (size \div 256) % 256, (size \div 65536) % 256,
             (size \div 16777216) % 256>>
        \o path

serialize(path, hgRevHash) ==
    LET pathLength == Len(path)
        size == BigEndian32(pathLength)
    IN  hgRevHash \o size \o path

\* ObjectId::sha1(buf): a digest of RAW_SIZE bytes. The digest keeps the
\* first byte of the buffer and what follows the revision hash, which tells
\* apart every two buffers serialize() makes of Hashes and Paths: no two of
\* them collide.
ObjectIdSha1(buf) ==
    LET kept == <<buf[1]>> \o SubSeq(buf, RAW_SIZE + 1, Len(buf))
    IN  kept \o Fill(RAW_SIZE - Len(kept), 0)

prepareToStoreLegacy(path, hgRevHash) ==
    LET buf == serialize(path, hgRevHash)
        edenBlobHash == ObjectIdSha1(buf)
    IN  <<edenBlobHash, buf>>

\* writeBatch->put(KeySpace::HgProxyHashFamily, id, bytes) on the store db
storeLegacy(computedPair, db) ==
    [id \in DOMAIN db \cup {computedPair[1]} |->
        IF id = computedPair[1] THEN computedPair[2] ELSE db[id]]

makeEmbeddedProxyHash(hgRevHash) == <<TYPE_HG_ID_NO_PATH>> \o hgRevHash

\* store(path, hgRevHash, writeBatch) on the store db: the object id returned
\* and the store after the call. writeBatch is FALSE for std::nullopt.
store_byPath(path, hgRevHash, writeBatch, db) ==
    IF path = <<>>
    THEN [id |-> makeEmbeddedProxyHash(hgRevHash), db |-> db]
    ELSE LET computedPair == prepareToStoreLegacy(path, hgRevHash)
         IN  [id |-> computedPair[1], db |-> storeLegacy(computedPair, db)]

store(path, hgRevHash, writeBatch, db) ==
    IF ~writeBatch
    THEN [id |-> makeEmbeddedProxyHash(hgRevHash), db |-> db]
    ELSE LET computedPair == prepareToStoreLegacy(path, hgRevHash)
         IN  [id |-> computedPair[1], db |-> storeLegacy(computedPair, db)]

\* HgProxyHash(path, hgRevHash): the object is its value_
HgProxyHash(path, hgRevHash) == [value_ |-> prepareToStoreLegacy(path, hgRevHash)[2]]

\* std::optional<HgProxyHash>, or the exception thrown
tryParseEmbeddedProxyHash_lenient(edenObjectId) ==
    IF Len(edenObjectId) = RAW_SIZE + 1 /\ edenObjectId[1] = TYPE_HG_ID_NO_PATH
    THEN [outcome |-> "value",
          value_ |-> HgProxyHash(<<>>, SubSeq(edenObjectId, 2, RAW_SIZE + 1)).value_]
    ELSE [outcome |-> "nullopt", value_ |-> <<>>]

tryParseEmbeddedProxyHash(edenObjectId) ==
    IF Len(edenObjectId) > RAW_SIZE
    THEN LET type == edenObjectId[1]
         IN  IF Len(edenObjectId) = RAW_SIZE + 1 /\ type = TYPE_HG_ID_NO_PATH
             THEN LET hash == SubSeq(edenObjectId, 2, RAW_SIZE + 1)
                  IN  [outcome |-> "value", value_ |-> HgProxyHash(<<>>, hash).value_]
             ELSE [outcome |-> "invalid_argument", value_ |-> <<>>]
    ELSE [outcome |-> "nullopt", value_ |-> <<>>]

\* validate(): "ok", or the message of the std::length_error thrown
validate_sizeOnly(value_) ==
    IF Len(value_) < RAW_SIZE + sizeofUint32 THEN "too short" ELSE "ok"

validate(value_) ==
    IF Len(value_) < RAW_SIZE + sizeofUint32
    THEN "too short"
    ELSE LET afterHash == SubSeq(value_, RAW_SIZE + 1, Len(value_))
             pathLength == ReadBigEndian32(SubSeq(afterHash, 1, sizeofUint32))
             infoBytes == SubSeq(afterHash, sizeofUint32 + 1, Len(afterHash))
         IN  IF Len(infoBytes) # pathLength
             THEN "inconsistent path length"
             ELSE "ok"

\* store->get(KeySpace::HgProxyHashFamily, id): a StoreResult
StoreGet(db, id) ==
    IF id \in DOMAIN db
    THEN [isValid |-> TRUE, value |-> db[id]]
    ELSE [isValid |-> FALSE, value |-> <<>>]

\* HgProxyHash(edenBlobHash, infoResult): extractValue() throws when the
\* result holds no value, and validate() has the last word.
HgProxyHashFromStore(infoResult) ==
    IF ~infoResult.isValid
    THEN [outcome |-> "no value", what |-> "", value_ |-> <<>>]
    ELSE IF validate(infoResult.value) # "ok"
    THEN [outcome |-> "length_error", what |-> validate(infoResult.value),
          value_ |-> <<>>]
    ELSE [outcome |-> "value", what |-> "", value_ |-> infoResult.value]

\* load(store, edenObjectId): the outcome, the HgProxyHash returned (its
\* value_), and the number of store->get() calls made on the way.
load(db, edenObjectId) ==
    LET embedded == tryParseEmbeddedProxyHash(edenObjectId)
    IN  IF embedded.outcome = "value"
        THEN [outcome |-> "value", what |-> "", value_ |-> embedded.value_,
              gets |-> 0]
        ELSE IF embedded.outcome = "invalid_argument"
        THEN [outcome |-> "invalid_argument", what |-> "Unknown proxy hash type",
              value_ |-> <<>>, gets |-> 0]
        ELSE LET infoResult == StoreGet(db, edenObjectId)
                 made == HgProxyHashFromStore(infoResult)
             IN  [outcome |-> made.outcome, what |-> made.what,
                  value_ |-> made.value_, gets |-> 1]

\* path() and revHash() of an HgProxyHash
path(value_) ==
    IF value_ = <<>>
    THEN <<>>
    ELSE SubSeq(value_, RAW_SIZE + sizeofUint32 + 1, Len(value_))

revHash(value_) ==
    IF value_ = <<>> THEN kZeroHash ELSE SubSeq(value_, 1, RAW_SIZE)

\* What the LocalStore may hold before the calls: nothing, or one entry
\* under a key of at most RAW_SIZE bytes, written by anyone.
RawKeys == {Fill(n, b) : n \in {2, RAW_SIZE}, b \in {1, 2}}

RawValues ==
    LET h == Fill(RAW_SIZE, 2)
    IN  {<<>>,
         Fill(RAW_SIZE + sizeofUint32 - 1, 2),
         h \o <<0, 0, 0, 1>>,
         h \o <<0, 0, 0, 0>> \o <<97>>,
         h \o <<0, 0, 1, 0>>,
         h \o <<1, 0, 0, 0>> \o <<97>>,
         h \o <<0, 0, 0, 1>> \o <<97>>}

InitialStores ==
    {<<>>} \cup {[id \in {k} |-> v] : k \in RawKeys, v \in RawValues}

\* The object ids load() is called with, next to the one store() returned.
RawIds == {Fill(n, b) : n \in {2, RAW_SIZE, RAW_SIZE + 1, RAW_SIZE + 2}, b \in {1, 2}}

\* The inode stands still in the specifications of the other components.
InodeUnused ==
    /\ state = FileInodeState(TRUE)
    /\ overlay = NoFile
    /\ lock = NoHolder
    /\ ops = [p \in Procs |-> IdleOp]
    /\ loads = <<>>
    /\ promises = <<>>
    /\ parentNotified = 0
    /\ edenBug = FALSE

InitProxyHash ==
    /\ InodeUnused
    /\ TakeoverUnused
    /\ PrjfsUnused
    /\ localStore \in InitialStores
    /\ encoded = NoCall
    /\ decoded = NoCall

\* A call of HgProxyHash::store(path, hgRevHash, writeBatch).
CallStore ==
    /\ encoded.op = "none"
    /\ \E p \in Paths, hgRevHash \in Hashes, writeBatch \in BOOLEAN :
        LET r == store(p, hgRevHash, writeBatch, localStore)
        IN  /\ encoded' = [op |-> "store", path |-> p, hgRevHash |-> hgRevHash,
                           writeBatch |-> writeBatch, id |-> r.id,
                           before |-> localStore]
            /\ localStore' = r.db
    /\ UNCHANGED <<decoded, inodeVars, prjfsVars, takeoverVars>>

\* A call of HgProxyHash::load(store, edenObjectId).
CallLoad ==
    /\ decoded.op = "none"
    /\ \E edenObjectId \in
            RawIds \cup (IF encoded.op = "store" THEN {encoded.id} ELSE {}) :
        LET r == load(localStore, edenObjectId)
        IN  decoded' = [op |-> "load", id |-> edenObjectId,
                        infoResult |-> StoreGet(localStore, edenObjectId),
                        outcome |-> r.outcome, what |-> r.what,
                        value_ |-> r.value_, gets |-> r.gets]
    /\ UNCHANGED <<localStore, encoded, inodeVars, prjfsVars, takeoverVars>>

NextProxyHash ==
    \/ CallStore
    \/ CallLoad

SpecProxyHash == InitProxyHash /\ [][NextProxyHash]_vars

(***************************************************************************)
(* Properties of HgProxyHash                                               *)
(***************************************************************************)
\* load() was called with the object id store() returned.
LoadedEncoded ==
    /\ encoded.op = "store"
    /\ decoded.op = "load"
    /\ decoded.id = encoded.id

\* The lookup of load() saw the store as the store() call left it.
LookupReturnsStored ==
    decoded.infoResult = StoreGet(localStore, decoded.id)

\* load() returned the proxy hash of (p, h).
Returned(p, h) ==
    /\ decoded.outcome = "value"
    /\ path(decoded.value_) = p
    /\ revHash(decoded.value_) = h

\* C21 (as the code has it): for every path p, empty or not, and every
\* revision hash h, loading the object id that store(p, h, writeBatch)
\* returned, from the store that call wrote to, yields a proxy hash with
\* path() = p and revHash() = h when a write batch was given; without a
\* write batch the id embeds h alone and the proxy hash loaded has the
\* empty path and revHash() = h, whatever p was.
C21_RoundTrip ==
    (LoadedEncoded /\ LookupReturnsStored)
        => IF encoded.writeBatch
           THEN Returned(encoded.path, encoded.hgRevHash)
           ELSE Returned(<<>>, encoded.hgRevHash)

C21_Witness ==
    /\ LoadedEncoded
    /\ LookupReturnsStored
    /\ encoded.writeBatch
    /\ Len(encoded.path) = MaxPathLen
    /\ Returned(encoded.path, encoded.hgRevHash)

\* C21 as stated: every non-empty path p comes back from the round trip.
C21_Original ==
    (LoadedEncoded /\ LookupReturnsStored /\ encoded.path # <<>>)
        => Returned(encoded.path, encoded.hgRevHash)

\* The object id has the embedded shape and embeds h.
Embeds(id, h) ==
    /\ Len(id) = 21
    /\ id[1] = 1
    /\ SubSeq(id, 2, 21) = h

\* C22 (as the code has it): store() called without a write batch, for any
\* path and any revision hash h, returns an object id of length 21 whose
\* first byte is 0x01 followed by h and leaves the key-value store as it
\* was; loading that id returns ("", h) without a single lookup. Called with
\* a write batch, store() returns a 20-byte id and puts the serialized pair
\* under it, for the empty path as for any other.
C22_EmbeddedForm ==
    encoded.op = "store" =>
        IF encoded.writeBatch
        THEN /\ Len(encoded.id) = 20
             /\ encoded.id \notin DOMAIN encoded.before
             /\ encoded.id \in DOMAIN localStore
             /\ localStore[encoded.id] =
                    encoded.hgRevHash \o <<0, 0, 0, Len(encoded.path)>> \o encoded.path
        ELSE /\ Embeds(encoded.id, encoded.hgRevHash)
             /\ localStore = encoded.before
             /\ LoadedEncoded =>
                    /\ Returned(<<>>, encoded.hgRevHash)
                    /\ decoded.gets = 0

C22_Witness ==
    /\ LoadedEncoded
    /\ ~encoded.writeBatch
    /\ encoded.path = <<>>
    /\ Embeds(encoded.id, encoded.hgRevHash)
    /\ localStore = encoded.before
    /\ Returned(<<>>, encoded.hgRevHash)
    /\ decoded.gets = 0

\* C22 as stated: the empty path always gets the embedded form, and nothing
\* is stored for it.
C22_Original ==
    (encoded.op = "store" /\ encoded.path = <<>>)
        => /\ Embeds(encoded.id, encoded.hgRevHash)
           /\ localStore = encoded.before

\* The object id has the embedded shape.
EmbeddedShape(id) == Len(id) = 21 /\ id[1] = 1

\* The bytes are a valid serialized pair: 24 bytes or more, and as many
\* bytes after the length prefix as the prefix declares.
WellFormed(bytes) ==
    /\ Len(bytes) >= 24
    /\ Len(bytes) - 24 =
           ((bytes[21] * 256 + bytes[22]) * 256 + bytes[23]) * 256 + bytes[24]

\* C23 (as the code has it): load() first tests the embedded shape (length
\* exactly 21 and first byte 0x01) and returns the embedded value for such
\* an id, without a lookup. An id of at most 20 bytes is resolved by one
\* lookup of the id, whose bytes are validated. Any other id (longer than 20
\* bytes and not of the embedded shape) is rejected with invalid_argument,
\* and no lookup is made for it.
C23_DecodeShapes ==
    decoded.op = "load" =>
        IF EmbeddedShape(decoded.id)
        THEN /\ Returned(<<>>, SubSeq(decoded.id, 2, 21))
             /\ decoded.gets = 0
        ELSE IF Len(decoded.id) <= 20
        THEN /\ decoded.gets = 1
             /\ decoded.outcome = "value" <=>
                    (decoded.infoResult.isValid /\ WellFormed(decoded.infoResult.value))
             /\ decoded.outcome = "value" => decoded.value_ = decoded.infoResult.value
        ELSE /\ decoded.outcome = "invalid_argument"
             /\ decoded.gets = 0

C23_Witness ==
    /\ decoded.op = "load"
    /\ Len(decoded.id) = 22
    /\ decoded.outcome = "invalid_argument"
    /\ decoded.gets = 0

\* C23 as stated: every id without the embedded shape, whatever its length
\* and first byte, is looked up.
C23_Original ==
    (decoded.op = "load" /\ ~EmbeddedShape(decoded.id)) => decoded.gets = 1

\* C24: load() never returns a proxy hash built from invalid stored data.
\* When the lookup has no entry for the id, load() fails (extractValue()
\* throws); when the stored bytes are shorter than 24 bytes, or the number
\* of bytes after the 4-byte big-endian length prefix differs from the
\* declared path length, load() fails with std::length_error.
C24_InvalidStoredData ==
    (decoded.op = "load" /\ decoded.gets = 1) =>
        /\ ~decoded.infoResult.isValid
               => decoded.outcome = "no value" /\ decoded.value_ = <<>>
        /\ (decoded.infoResult.isValid /\ ~WellFormed(decoded.infoResult.value))
               => decoded.outcome = "length_error" /\ decoded.value_ = <<>>
        /\ (decoded.infoResult.isValid /\ Len(decoded.infoResult.value) < 24)
               => decoded.what = "too short"

\* The stored bytes are long enough, but declare another path length than
\* the one they have.
C24_Witness ==
    /\ decoded.op = "load"
    /\ decoded.gets = 1
    /\ decoded.infoResult.isValid
    /\ Len(decoded.infoResult.value) = 25
    /\ decoded.infoResult.value[21] = 1
    /\ decoded.outcome = "length_error"
    /\ decoded.what = "inconsistent path length"

(***************************************************************************)
(* TakeoverData (eden/fs/takeover/TakeoverData.cpp): the negotiation of    *)
(* the protocol version, and the message that hands the mounts, the lock   *)
(* file, the thrift socket and the FUSE descriptors to the next daemon, in *)
(* its two serializations.                                                 *)
(***************************************************************************)
\* Largest number of mount points handed over.
MaxMounts == 2

\* Largest version number offered or supported in a negotiation.
MaxVersion == 4

\* Number of bytes of a fuse_init_out in the model.
ConnInfoSize == 2

kTakeoverProtocolVersionNeverSupported == 0

kTakeoverProtocolVersionOne == 1

kTakeoverProtocolVersionThree == 3

kTakeoverProtocolVersionFour == 4

\* TakeoverCapabilities: one bit each
CUSTOM_SERIALIZATION == 1

FUSE == 2

THRIFT_SERIALIZATION == 4

PING == 8

\* MessageType
MessageTypeERROR == 1

MessageTypeMOUNTS == 2

\* constexpr auto mountPointFilesOffset
mountPointFilesOffset == 2

kSupportedTakeoverVersions ==
    {kTakeoverProtocolVersionOne, kTakeoverProtocolVersionThree,
     kTakeoverProtocolVersionFour}

\* a & b on unsigned integers
RECURSIVE BitAnd(_, _)
BitAnd(a, b) ==
    IF a = 0 \/ b = 0
    THEN 0
    ELSE (a % 2) * (b % 2) + 2 * BitAnd(a \div 2, b \div 2)

\* std::optional<int32_t>
NoVersion == [has_value |-> FALSE, value |-> 0]

SomeVersion(v) == [has_value |-> TRUE, value |-> v]

\* The loop of computeCompatibleVersion over the versions not yet visited;
\* a std::set is visited in ascending order.
RECURSIVE computeCompatibleVersion_anyOffered(_, _, _)
computeCompatibleVersion_anyOffered(versions, supported, best) ==
    IF versions = {}
    THEN best
    ELSE LET version == CHOOSE v \in versions : \A w \in versions : v <= w
         IN  computeCompatibleVersion_anyOffered(versions \ {version}, supported,
                 IF best.has_value /\ best.value > version
                 THEN best
                 ELSE SomeVersion(version))

RECURSIVE computeCompatibleVersion(_, _, _)
computeCompatibleVersion(versions, supported, best) ==
    IF versions = {}
    THEN best
    ELSE LET version == CHOOSE v \in versions : \A w \in versions : v <= w
         IN  computeCompatibleVersion(versions \ {version}, supported,
                 IF best.has_value /\ best.value > version
                 THEN best
                 ELSE IF version \notin supported
                 THEN best
                 ELSE SomeVersion(version))

\* A value, or the std::runtime_error thrown instead
Thrown == [threw |-> TRUE, value |-> 0]

Value(v) == [threw |-> FALSE, value |-> v]

versionToCapabilites(version) ==
    CASE version = kTakeoverProtocolVersionNeverSupported -> Value(0)
      [] version = kTakeoverProtocolVersionOne -> Value(CUSTOM_SERIALIZATION + FUSE)
      [] version = kTakeoverProtocolVersionThree -> Value(FUSE + THRIFT_SERIALIZATION)
      [] version = kTakeoverProtocolVersionFour ->
            Value(FUSE + THRIFT_SERIALIZATION + PING)
      [] OTHER -> Thrown

capabilitesToVersion(capabilities) ==
    IF capabilities = 0
    THEN Value(kTakeoverProtocolVersionNeverSupported)
    ELSE IF capabilities = CUSTOM_SERIALIZATION + FUSE
    THEN Value(kTakeoverProtocolVersionOne)
    ELSE IF capabilities = FUSE + THRIFT_SERIALIZATION
    THEN Value(kTakeoverProtocolVersionThree)
    ELSE IF capabilities = FUSE + THRIFT_SERIALIZATION + PING
    THEN Value(kTakeoverProtocolVersionFour)
    ELSE Thrown

\* app.writeBE<uint32_t>(n) and cursor.readBE<uint32_t>() at position pos
writeBE32(n) == BigEndian32(n)

readBE32(buf, pos) == ReadBigEndian32(SubSeq(buf, pos, pos + sizeofUint32 - 1))

\* The byte strings of a sequence, one after the other.
RECURSIVE Flatten(_)
Flatten(strings) ==
    IF strings = <<>> THEN <<>> ELSE Head(strings) \o Flatten(Tail(strings))

\* CompactSerializer::serialize<std::string>(inodeMap) and its inverse: the
\* inode map is a list of inode numbers, written after their count.
CompactSerializeInodeMap(inodeMap) == <<Len(inodeMap)>> \o inodeMap

CompactDeserializeInodeMap(bytes) == SubSeq(bytes, 2, 1 + bytes[1])

\* CompactSerializer::serialize(serialized, &bufQ) and its inverse: the
\* encoded SerializedTakeoverData is kept as one element of the buffer.
CompactSerialize(serializedTakeoverData) == <<[compact |-> serializedTakeoverData]>>

CompactDeserialize(buf) == buf[1].compact

\* The length-prefixed string of the custom serialization
LengthPrefixed(string) == writeBE32(Len(string)) \o string

serializeCustomMount(mount) ==
    LET serializedInodeMap == CompactSerializeInodeMap(mount.inodeMap)
    IN  LengthPrefixed(mount.mountPath)
        \o LengthPrefixed(mount.stateDirectory)
        \o writeBE32(Len(mount.bindMounts))
        \o Flatten([i \in 1..Len(mount.bindMounts) |->
                        LengthPrefixed(mount.bindMounts[i])])
        \o mount.connInfo
        \o writeBE32(0)
        \o LengthPrefixed(serializedInodeMap)

serializeCustom(data) ==
    writeBE32(MessageTypeMOUNTS)
    \o writeBE32(Len(data.mountPoints))
    \o Flatten([i \in 1..Len(data.mountPoints) |->
                    serializeCustomMount(data.mountPoints[i])])

\* The SerializedMountInfo of a mount
SerializedMountInfo(mount) ==
    [mountPath |-> mount.mountPath,
     stateDirectory |-> mount.stateDirectory,
     bindMountPaths |-> mount.bindMounts,
     connInfo |-> mount.connInfo,
     inodeMap |-> mount.inodeMap]

\* serializeThrift(protocolCapabilities): the buffer, or the exception of
\* capabilitesToVersion
serializeThrift_advertiseFour(data, protocolCapabilities) ==
    LET versionToAdvertize == capabilitesToVersion(protocolCapabilities)
    IN  IF versionToAdvertize.threw
        THEN Thrown
        ELSE Value(writeBE32(versionToAdvertize.value)
                   \o CompactSerialize(
                        [type |-> "mounts",
                         mounts |-> [i \in 1..Len(data.mountPoints) |->
                                        SerializedMountInfo(data.mountPoints[i])]]))

serializeThrift(data, protocolCapabilities) ==
    LET version == capabilitesToVersion(protocolCapabilities)
    IN  IF version.threw
        THEN Thrown
        ELSE LET versionToAdvertize ==
                     IF version.value = kTakeoverProtocolVersionFour
                     THEN kTakeoverProtocolVersionThree
                     ELSE version.value
             IN  Value(writeBE32(versionToAdvertize)
                       \o CompactSerialize(
                            [type |-> "mounts",
                             mounts |-> [i \in 1..Len(data.mountPoints) |->
                                            SerializedMountInfo(data.mountPoints[i])]]))

\* IOBuf serialize(protocolCapabilities): the serializer chosen and its
\* buffer, or the exception thrown
serializeBuf_thriftElseCustom(data, protocolCapabilities) ==
    IF BitAnd(protocolCapabilities, THRIFT_SERIALIZATION) # 0
    THEN LET r == serializeThrift(data, protocolCapabilities)
         IN  [threw |-> r.threw, dialect |-> "thrift", value |-> r.value]
    ELSE [threw |-> FALSE, dialect |-> "custom", value |-> serializeCustom(data)]

serializeBuf(data, protocolCapabilities) ==
    LET serializationMethod ==
            BitAnd(protocolCapabilities, CUSTOM_SERIALIZATION + THRIFT_SERIALIZATION)
    IN  IF serializationMethod = CUSTOM_SERIALIZATION
        THEN [threw |-> FALSE, dialect |-> "custom", value |-> serializeCustom(data)]
        ELSE IF serializationMethod = THRIFT_SERIALIZATION
        THEN LET r == serializeThrift(data, protocolCapabilities)
             IN  [threw |-> r.threw, dialect |-> "thrift", value |-> r.value]
        ELSE [threw |-> TRUE, dialect |-> "none", value |-> 0]

\* The descriptors of the mounts, in the order of mountPoints
FuseFDs(data) == [n \in 1..Len(data.mountPoints) |-> data.mountPoints[n].fuseFD]

\* A TakeoverData whose files were moved from
MovedFrom(data) ==
    [lockFile |-> NoFd,
     thriftSocket |-> NoFd,
     mountPoints |-> [n \in 1..Len(data.mountPoints) |->
                        [data.mountPoints[n] EXCEPT !.fuseFD = NoFd]]]

\* void serialize(protocolCapabilities, msg): the TakeoverData and the
\* message after the call
serializeMsg_socketFirst(data, protocolCapabilities, message) ==
    LET r == serializeBuf(data, protocolCapabilities)
    IN  IF r.threw
        THEN [threw |-> TRUE, dialect |-> r.dialect, data |-> data, msg |-> message]
        ELSE [threw |-> FALSE, dialect |-> r.dialect, data |-> MovedFrom(data),
              msg |-> [data |-> r.value,
                       files |-> message.files
                                 \o <<data.thriftSocket, data.lockFile>>
                                 \o FuseFDs(data)]]

serializeMsg(data, protocolCapabilities, message) ==
    LET r == serializeBuf(data, protocolCapabilities)
    IN  IF r.threw
        THEN [threw |-> TRUE, dialect |-> r.dialect, data |-> data, msg |-> message]
        ELSE [threw |-> FALSE, dialect |-> r.dialect, data |-> MovedFrom(data),
              msg |-> [data |-> r.value,
                       files |-> message.files
                                 \o <<data.lockFile, data.thriftSocket>>
                                 \o FuseFDs(data)]]

\* getProtocolVersion(buf): the version and the buffer, trimmed or not
getProtocolVersion(buf) ==
    LET messageType == readBE32(buf, 1)
    IN  IF messageType \in {MessageTypeERROR, MessageTypeMOUNTS}
        THEN [threw |-> FALSE, value |-> kTakeoverProtocolVersionOne, buf |-> buf]
        ELSE IF messageType \in {kTakeoverProtocolVersionThree,
                                 kTakeoverProtocolVersionFour}
        THEN [threw |-> FALSE, value |-> messageType,
              buf |-> SubSeq(buf, sizeofUint32 + 1, Len(buf))]
        ELSE [threw |-> TRUE, value |-> 0, buf |-> buf]

\* cursor.readFixedString after a readBE<uint32_t> of the length, at pos
readLengthPrefixed(buf, pos) ==
    LET length == readBE32(buf, pos)
    IN  [val |-> SubSeq(buf, pos + sizeofUint32, pos + sizeofUint32 + length - 1),
         pos |-> pos + sizeofUint32 + length]

\* The loop over the bind mounts of deserializeCustom
RECURSIVE readBindMounts(_, _, _)
readBindMounts(buf, pos, numBindMounts) ==
    IF numBindMounts = 0
    THEN [val |-> <<>>, pos |-> pos]
    ELSE LET bindPath == readLengthPrefixed(buf, pos)
             rest == readBindMounts(buf, bindPath.pos, numBindMounts - 1)
         IN  [val |-> <<bindPath.val>> \o rest.val, pos |-> rest.pos]

\* One turn of the loop over the mounts of deserializeCustom
readMount_swapped(buf, pos) ==
    LET mountPath == readLengthPrefixed(buf, pos)
        stateDirectory == readLengthPrefixed(buf, mountPath.pos)
        numBindMounts == readBE32(buf, stateDirectory.pos)
        bindMounts == readBindMounts(buf, stateDirectory.pos + sizeofUint32,
                                     numBindMounts)
        connInfo == SubSeq(buf, bindMounts.pos, bindMounts.pos + ConnInfoSize - 1)
        fileHandleMap == readLengthPrefixed(buf, bindMounts.pos + ConnInfoSize)
        inodeMapBuffer == readLengthPrefixed(buf, fileHandleMap.pos)
    IN  [val |-> [mountPath |-> stateDirectory.val,
                  stateDirectory |-> mountPath.val,
                  bindMounts |-> bindMounts.val,
                  fuseFD |-> NoFd,
                  connInfo |-> connInfo,
                  inodeMap |-> CompactDeserializeInodeMap(inodeMapBuffer.val)],
         pos |-> inodeMapBuffer.pos]

readMount(buf, pos) ==
    LET mountPath == readLengthPrefixed(buf, pos)
        stateDirectory == readLengthPrefixed(buf, mountPath.pos)
        numBindMounts == readBE32(buf, stateDirectory.pos)
        bindMounts == readBindMounts(buf, stateDirectory.pos + sizeofUint32,
                                     numBindMounts)
        connInfo == SubSeq(buf, bindMounts.pos, bindMounts.pos + ConnInfoSize - 1)
        fileHandleMap == readLengthPrefixed(buf, bindMounts.pos + ConnInfoSize)
        inodeMapBuffer == readLengthPrefixed(buf, fileHandleMap.pos)
    IN  [val |-> [mountPath |-> mountPath.val,
                  stateDirectory |-> stateDirectory.val,
                  bindMounts |-> bindMounts.val,
                  fuseFD |-> NoFd,
                  connInfo |-> connInfo,
                  inodeMap |-> CompactDeserializeInodeMap(inodeMapBuffer.val)],
         pos |-> inodeMapBuffer.pos]

RECURSIVE readMounts(_, _, _)
readMounts(buf, pos, numMounts) ==
    IF numMounts = 0
    THEN <<>>
    ELSE LET mount == readMount(buf, pos)
         IN  <<mount.val>> \o readMounts(buf, mount.pos, numMounts - 1)

\* A TakeoverData without files
TakeoverDataOf(mountPoints) ==
    [lockFile |-> NoFd, thriftSocket |-> NoFd, mountPoints |-> mountPoints]

\* The TakeoverData a deserializer returns, or the std::runtime_error it
\* throws: its cause, and its text when the text came with the message
Deserialized(data) ==
    [threw |-> FALSE, cause |-> "", what |-> <<>>, value |-> data]

DeserializeError(cause, what) ==
    [threw |-> TRUE, cause |-> cause, what |-> what, value |-> TakeoverDataOf(<<>>)]

\* ": "
ColonSpace == <<58, 32>>

deserializeCustom(buf) ==
    LET messageType == readBE32(buf, 1)
    IN  IF messageType # MessageTypeERROR /\ messageType # MessageTypeMOUNTS
        THEN DeserializeError("unknown takeover data message type", <<>>)
        ELSE IF messageType = MessageTypeERROR
        THEN LET errorType == readLengthPrefixed(buf, sizeofUint32 + 1)
                 errorMessage == readLengthPrefixed(buf, errorType.pos)
             IN  DeserializeError("error message",
                                  errorType.val \o ColonSpace \o errorMessage.val)
        ELSE LET numMounts == readBE32(buf, sizeofUint32 + 1)
             IN  Deserialized(TakeoverDataOf(
                     readMounts(buf, 2 * sizeofUint32 + 1, numMounts)))

deserializeThrift(buf) ==
    LET serializedData == CompactDeserialize(buf)
    IN  IF serializedData.type = "errorReason"
        THEN DeserializeError("error message", serializedData.errorReason)
        ELSE IF serializedData.type = "mounts"
        THEN Deserialized(TakeoverDataOf(
                 [i \in 1..Len(serializedData.mounts) |->
                    [mountPath |-> serializedData.mounts[i].mountPath,
                     stateDirectory |-> serializedData.mounts[i].stateDirectory,
                     bindMounts |-> serializedData.mounts[i].bindMountPaths,
                     fuseFD |-> NoFd,
                     connInfo |-> serializedData.mounts[i].connInfo,
                     inodeMap |-> serializedData.mounts[i].inodeMap]]))
        ELSE Deserialized(TakeoverDataOf(<<>>))

\* TakeoverData deserialize(protocolCapabilities, buf)
deserializeBuf(protocolCapabilities, buf) ==
    LET serializationMethod ==
            BitAnd(protocolCapabilities, CUSTOM_SERIALIZATION + THRIFT_SERIALIZATION)
    IN  IF serializationMethod = CUSTOM_SERIALIZATION
        THEN deserializeCustom(buf)
        ELSE IF serializationMethod = THRIFT_SERIALIZATION
        THEN deserializeThrift(buf)
        ELSE DeserializeError("unrecognized serialization capability", <<>>)

\* The files of a message, moved from
MovedFiles(files) == [n \in 1..Len(files) |-> NoFd]

\* The descriptors handed to the first Len(mountPoints) mounts
AttachFiles(data, files) ==
    [lockFile |-> files[1],
     thriftSocket |-> files[2],
     mountPoints |-> [n \in 1..Len(data.mountPoints) |->
                        [data.mountPoints[n] EXCEPT
                            !.fuseFD = IF n + mountPointFilesOffset <= Len(files)
                                       THEN files[n + mountPointFilesOffset]
                                       ELSE NoFd]]]

\* TakeoverData deserialize(msg): the data returned or the exception
\* thrown, and the message after the call (getProtocolVersion trims the
\* version word off msg.data)
deserializeMsg_noCountCheck(message) ==
    LET protocolVersion == getProtocolVersion(message.data)
        capabilities == versionToCapabilites(protocolVersion.value)
        data == deserializeBuf(capabilities.value, protocolVersion.buf)
        trimmed == [message EXCEPT !.data = protocolVersion.buf]
    IN  IF protocolVersion.threw \/ capabilities.threw
        THEN [threw |-> TRUE, cause |-> "unrecognized response", what |-> <<>>,
              value |-> TakeoverDataOf(<<>>), msg |-> trimmed]
        ELSE IF data.threw
        THEN [threw |-> TRUE, cause |-> data.cause, what |-> data.what,
              value |-> TakeoverDataOf(<<>>), msg |-> trimmed]
        ELSE [threw |-> FALSE, cause |-> "", what |-> <<>>,
              value |-> AttachFiles(data.value, message.files),
              msg |-> [trimmed EXCEPT !.files = MovedFiles(message.files)]]

deserializeMsg(message) ==
    LET protocolVersion == getProtocolVersion(message.data)
        capabilities == versionToCapabilites(protocolVersion.value)
        data == deserializeBuf(capabilities.value, protocolVersion.buf)
        trimmed == [message EXCEPT !.data = protocolVersion.buf]
    IN  IF protocolVersion.threw \/ capabilities.threw
        THEN [threw |-> TRUE, cause |-> "unrecognized response", what |-> <<>>,
              value |-> TakeoverDataOf(<<>>), msg |-> trimmed]
        ELSE IF data.threw
        THEN [threw |-> TRUE, cause |-> data.cause, what |-> data.what,
              value |-> TakeoverDataOf(<<>>), msg |-> trimmed]
        ELSE IF Len(data.value.mountPoints) + mountPointFilesOffset
                    # Len(message.files)
        THEN [threw |-> TRUE, cause |-> "descriptor count", what |-> <<>>,
              value |-> TakeoverDataOf(<<>>), msg |-> trimmed]
        ELSE [threw |-> FALSE, cause |-> "", what |-> <<>>,
              value |-> AttachFiles(data.value, message.files),
              msg |-> [trimmed EXCEPT !.files = MovedFiles(message.files)]]

\* MessageType::PING
MessageTypePING == 3

\* isPing(buf)
isPing_wordOnly(buf) ==
    IF Len(buf) >= sizeofUint32
    THEN LET messageType == readBE32(buf, 1)
         IN  messageType = MessageTypePING
    ELSE FALSE

isPing(buf) ==
    IF Len(buf) = sizeofUint32
    THEN LET messageType == readBE32(buf, 1)
         IN  messageType = MessageTypePING
    ELSE FALSE

serializePing == writeBE32(MessageTypePING)

\* serializeErrorCustom(ew): ew is the class name and the what() of the
\* exception, both empty for an empty exception_wrapper
serializeErrorCustom(ew) ==
    writeBE32(MessageTypeERROR)
    \o LengthPrefixed(ew.class_name)
    \o LengthPrefixed(ew.what)

serializeErrorThrift(ew) ==
    writeBE32(kTakeoverProtocolVersionThree)
    \o CompactSerialize([type |-> "errorReason",
                         errorReason |-> ew.class_name \o ColonSpace \o ew.what])

\* serializeError(protocolCapabilities, ew): the serializer chosen and its
\* buffer, or the exception thrown
serializeError_likeSerialize(protocolCapabilities, ew) ==
    LET serializationMethod ==
            BitAnd(protocolCapabilities, CUSTOM_SERIALIZATION + THRIFT_SERIALIZATION)
    IN  IF serializationMethod = CUSTOM_SERIALIZATION
        THEN [threw |-> FALSE, dialect |-> "custom", value |-> serializeErrorCustom(ew)]
        ELSE IF serializationMethod = THRIFT_SERIALIZATION
        THEN [threw |-> FALSE, dialect |-> "thrift", value |-> serializeErrorThrift(ew)]
        ELSE [threw |-> TRUE, dialect |-> "none", value |-> <<>>]

serializeError(protocolCapabilities, ew) ==
    LET serializationMethod ==
            BitAnd(protocolCapabilities, CUSTOM_SERIALIZATION + THRIFT_SERIALIZATION)
    IN  IF serializationMethod = CUSTOM_SERIALIZATION \/ protocolCapabilities = 0
        THEN [threw |-> FALSE, dialect |-> "custom", value |-> serializeErrorCustom(ew)]
        ELSE IF serializationMethod = THRIFT_SERIALIZATION
        THEN [threw |-> FALSE, dialect |-> "thrift", value |-> serializeErrorThrift(ew)]
        ELSE [threw |-> TRUE, dialect |-> "none", value |-> <<>>]

\* The exceptions reported: a std::runtime_error with a text, and an
\* empty exception_wrapper.
Exceptions ==
    {[class_name |-> <<115, 116, 100>>, what |-> <<98, 97, 100>>],
     [class_name |-> <<>>, what |-> <<>>]}

\* The mounts handed over: paths, bind mounts in an order of their own,
\* the bytes of the fuse_init_out, the inode map, the FUSE descriptor.
MountSamples ==
    {[mountPath |-> <<47, 97>>, stateDirectory |-> <<47, 115>>,
      bindMounts |-> <<>>, fuseFD |-> 5,
      connInfo |-> Fill(ConnInfoSize, 7), inodeMap |-> <<>>],
     [mountPath |-> <<47, 98>>, stateDirectory |-> <<47, 116, 116>>,
      bindMounts |-> << <<47, 120>>, <<47, 119, 119>> >>, fuseFD |-> 6,
      connInfo |-> Fill(ConnInfoSize, 0), inodeMap |-> <<1, 2>>],
     [mountPath |-> <<47, 99, 99>>, stateDirectory |-> <<47>>,
      bindMounts |-> << <<47, 121>> >>, fuseFD |-> 7,
      connInfo |-> Fill(ConnInfoSize, 1), inodeMap |-> <<3>>]}

\* The lists of at most MaxMounts different mounts
MountLists ==
    {d \in UNION {[1..n -> MountSamples] : n \in 0..MaxMounts} :
        \A i, j \in 1..Len(d) : i # j => d[i] # d[j]}

\* All the values of the four capability bits
Capabilities == 0..(CUSTOM_SERIALIZATION + FUSE + THRIFT_SERIALIZATION + PING)

\* The version numbers of a negotiation
Versions == 0..MaxVersion

InitTakeover ==
    /\ InodeUnused
    /\ StoreUnused
    /\ PrjfsUnused
    /\ \E d \in MountLists :
        takeoverData = [lockFile |-> 3, thriftSocket |-> 4, mountPoints |-> d]
    /\ msg = [data |-> <<>>, files |-> <<>>]
    /\ serialized = NoCall
    /\ received = NoCall
    /\ negotiation = NoCall
    /\ pingCheck = NoCall

\* A call of TakeoverData::computeCompatibleVersion(versions, supported).
CallComputeCompatibleVersion ==
    /\ negotiation.op = "none"
    /\ serialized.op = "none"
    /\ \E versions \in SUBSET Versions, supported \in SUBSET Versions :
        negotiation' = [op |-> "computeCompatibleVersion", versions |-> versions,
                        supported |-> supported,
                        best |-> computeCompatibleVersion(versions, supported, NoVersion)]
    /\ UNCHANGED <<takeoverData, msg, serialized, received, pingCheck, inodeVars, prjfsVars,
                   storeVars>>

\* A call of takeoverData.serialize(protocolCapabilities, msg).
CallSerialize ==
    /\ serialized.op = "none"
    /\ negotiation.op = "none"
    /\ \E protocolCapabilities \in Capabilities :
        LET r == serializeMsg(takeoverData, protocolCapabilities, msg)
        IN  /\ serialized' = [op |-> "serialize",
                              protocolCapabilities |-> protocolCapabilities,
                              data |-> takeoverData,
                              threw |-> r.threw, dialect |-> r.dialect]
            /\ takeoverData' = r.data
            /\ msg' = r.msg
    /\ UNCHANGED <<received, negotiation, pingCheck, inodeVars, prjfsVars, storeVars>>

\* The message arrives with the descriptors the socket delivered: all of
\* them, one less, or one more.
Delivery ==
    /\ serialized.op = "serialize"
    /\ ~serialized.threw
    /\ received.op = "none"
    /\ Len(msg.files) = Len(serialized.data.mountPoints) + mountPointFilesOffset
    /\ \/ msg' = [msg EXCEPT !.files = SubSeq(msg.files, 1, Len(msg.files) - 1)]
       \/ msg' = [msg EXCEPT !.files = msg.files \o <<9>>]
    /\ UNCHANGED <<takeoverData, serialized, received, negotiation, pingCheck,
                   inodeVars, prjfsVars, storeVars>>

\* A call of TakeoverData::deserialize(msg).
CallDeserialize ==
    /\ serialized.op \in {"serialize", "serializeError"}
    /\ ~serialized.threw
    /\ received.op = "none"
    /\ LET r == deserializeMsg(msg)
       IN  /\ received' = [op |-> "deserialize", files |-> msg.files,
                           threw |-> r.threw, cause |-> r.cause, what |-> r.what,
                           data |-> r.value]
           /\ msg' = r.msg
    /\ UNCHANGED <<takeoverData, serialized, negotiation, pingCheck, inodeVars, prjfsVars,
                   storeVars>>

\* A call of TakeoverData::serializeError(protocolCapabilities, ew); the
\* buffer is sent as a message without files.
CallSerializeError ==
    /\ serialized.op = "none"
    /\ negotiation.op = "none"
    /\ \E protocolCapabilities \in Capabilities, ew \in Exceptions :
        LET r == serializeError(protocolCapabilities, ew)
        IN  /\ serialized' = [op |-> "serializeError",
                              protocolCapabilities |-> protocolCapabilities,
                              data |-> takeoverData, ew |-> ew,
                              threw |-> r.threw, dialect |-> r.dialect]
            /\ msg' = IF r.threw THEN msg ELSE [msg EXCEPT !.data = r.value]
    /\ UNCHANGED <<takeoverData, received, negotiation, pingCheck, inodeVars, prjfsVars,
                   storeVars>>

\* A call of TakeoverData::serializePing(); the buffer is sent as a message
\* without files.
CallSerializePing ==
    /\ serialized.op = "none"
    /\ negotiation.op = "none"
    /\ serialized' = [op |-> "serializePing", protocolCapabilities |-> 0,
                      data |-> takeoverData, threw |-> FALSE, dialect |-> "none"]
    /\ msg' = [msg EXCEPT !.data = serializePing]
    /\ UNCHANGED <<takeoverData, received, negotiation, pingCheck, inodeVars, prjfsVars,
                   storeVars>>

\* A call of TakeoverData::isPing(&msg.data) on the message received.
CallIsPing ==
    /\ serialized.op # "none"
    /\ ~serialized.threw
    /\ received.op = "none"
    /\ pingCheck.op = "none"
    /\ pingCheck' = [op |-> "isPing", data |-> msg.data, result |-> isPing(msg.data)]
    /\ UNCHANGED <<takeoverData, msg, serialized, received, negotiation, inodeVars, prjfsVars,
                   storeVars>>

NextTakeover ==
    \/ CallComputeCompatibleVersion
    \/ CallSerialize
    \/ CallSerializeError
    \/ CallSerializePing
    \/ CallIsPing
    \/ Delivery
    \/ CallDeserialize

SpecTakeover == InitTakeover /\ [][NextTakeover]_vars

(***************************************************************************)
(* Properties of TakeoverData                                              *)
(***************************************************************************)
\* C25: for every pair of sets of versions (offered, supported),
\* computeCompatibleVersion returns the largest element of their
\* intersection, and returns none exactly when the intersection is empty;
\* against the supported set {1, 3, 4} it never returns 0 or 2.
C25_CompatibleVersion ==
    negotiation.op = "computeCompatibleVersion" =>
        LET common == negotiation.versions \cap negotiation.supported
        IN  /\ negotiation.best.has_value <=> common # {}
            /\ negotiation.best.has_value =>
                    /\ negotiation.best.value \in common
                    /\ \A v \in common : v <= negotiation.best.value
            /\ negotiation.supported = {1, 3, 4} =>
                    ~(negotiation.best.has_value /\ negotiation.best.value \in {0, 2})

\* Everything is offered, 1, 3 and 4 are supported: 4 it is.
C25_Witness ==
    /\ negotiation.op = "computeCompatibleVersion"
    /\ negotiation.versions = 0..4
    /\ negotiation.supported = {1, 3, 4}
    /\ negotiation.best = [has_value |-> TRUE, value |-> 4]

\* The capability sets of the supported versions 1, 3 and 4
SupportedCapabilities == {1 + 2, 2 + 4, 2 + 4 + 8}

\* deserialize() was called on the message serialize() made, with as many
\* descriptors as serialize() attached.
DeliveredWhole ==
    /\ serialized.op = "serialize"
    /\ received.op = "deserialize"
    /\ Len(received.files) = Len(serialized.data.mountPoints) + 2

\* C26: for every capability set of a supported version (1, 3, 4) and every
\* list of mounts, deserializing the message serialize() produced yields the
\* same number of mounts with identical mountPath, stateDirectory,
\* bindMounts (in the same order), connInfo bytes and inodeMap, each mount
\* attached to the FUSE descriptor it had before serialization.
C26_RoundTrip ==
    (DeliveredWhole /\ serialized.protocolCapabilities \in SupportedCapabilities)
        => /\ ~received.threw
           /\ Len(received.data.mountPoints) = Len(serialized.data.mountPoints)
           /\ \A n \in 1..Len(serialized.data.mountPoints) :
                LET before == serialized.data.mountPoints[n]
                    after == received.data.mountPoints[n]
                IN  /\ after.mountPath = before.mountPath
                    /\ after.stateDirectory = before.stateDirectory
                    /\ after.bindMounts = before.bindMounts
                    /\ after.connInfo = before.connInfo
                    /\ after.inodeMap = before.inodeMap
                    /\ after.fuseFD = before.fuseFD
                    /\ after.fuseFD # NoFd

\* Two mounts, one of them with two bind mounts, in the custom
\* serialization of version 1.
C26_Witness ==
    /\ DeliveredWhole
    /\ serialized.protocolCapabilities = 1 + 2
    /\ serialized.dialect = "custom"
    /\ Len(serialized.data.mountPoints) = 2
    /\ Len(serialized.data.mountPoints[2].bindMounts) = 2
    /\ ~received.threw
    /\ received.data.mountPoints = serialized.data.mountPoints

\* The step is a serialize() call that made a message.
SerializeStep ==
    /\ serialized.op = "none"
    /\ serialized'.op = "serialize"
    /\ ~serialized'.threw

\* The step is a deserialize() call that returned takeover data.
DeserializeStep ==
    /\ received.op = "none"
    /\ received'.op = "deserialize"
    /\ ~received'.threw

\* C27: serialize() attaches the descriptors in this order, for every list
\* of mounts: index 0 is the lock file, index 1 the thrift socket, and
\* index 2 + n the FUSE descriptor of the n-th mount of mountPoints;
\* deserialize() takes them back from the same positions.
C27_DescriptorOrder ==
    [][/\ SerializeStep =>
            /\ Len(msg'.files) = 2 + Len(takeoverData.mountPoints)
            /\ msg'.files[1] = takeoverData.lockFile
            /\ msg'.files[2] = takeoverData.thriftSocket
            /\ \A n \in 1..Len(takeoverData.mountPoints) :
                    msg'.files[2 + n] = takeoverData.mountPoints[n].fuseFD
       /\ DeserializeStep =>
            /\ received'.data.lockFile = msg.files[1]
            /\ received'.data.thriftSocket = msg.files[2]
            /\ \A n \in 1..Len(received'.data.mountPoints) :
                    received'.data.mountPoints[n].fuseFD = msg.files[2 + n]]_vars

\* The lock file (3), the thrift socket (4) and the descriptors of two
\* mounts went through the message.
C27_Witness ==
    /\ DeliveredWhole
    /\ ~received.threw
    /\ received.files = <<3, 4>> \o FuseFDs(serialized.data)
    /\ Len(received.files) = 4
    /\ received.data.lockFile = 3
    /\ received.data.thriftSocket = 4
    /\ FuseFDs(received.data) = SubSeq(received.files, 3, 4)

\* C28: deserialize() fails with an error, and returns no takeover data
\* with any descriptor attached, whenever the number of descriptors
\* received differs from the number of decoded mounts plus 2 (the lock file
\* and the thrift socket); the descriptors stay in the message.
C28_DescriptorCount ==
    (/\ serialized.op = "serialize"
     /\ received.op = "deserialize"
     /\ Len(received.files) # Len(serialized.data.mountPoints) + 2)
        => /\ received.threw
           /\ received.data = [lockFile |-> NoFd, thriftSocket |-> NoFd,
                               mountPoints |-> <<>>]
           /\ msg.files = received.files

\* One descriptor too many for the two mounts of the thrift message.
C28_Witness ==
    /\ serialized.op = "serialize"
    /\ serialized.dialect = "thrift"
    /\ received.op = "deserialize"
    /\ Len(serialized.data.mountPoints) = 2
    /\ Len(received.files) = 5
    /\ received.threw
    /\ msg.files = received.files

\* The message was serialized with the capability set of version 4.
SerializedAtFour ==
    /\ serialized.op = "serialize"
    /\ serialized.protocolCapabilities = 2 + 4 + 8

\* C29: a mounts message serialized with the capability set of version 4
\* carries 3, never 4, as its first 32-bit big-endian word, and is byte for
\* byte the message the capability set of version 3 gives; a peer that only
\* knows version 3 therefore decodes it, and decoding yields the mount list
\* that was serialized.
C29_VersionOnTheWire ==
    SerializedAtFour =>
        /\ ~serialized.threw
        /\ serialized.dialect = "thrift"
        /\ received.op = "none" =>
                /\ SubSeq(msg.data, 1, 4) = <<0, 0, 0, 3>>
                /\ msg.data = serializeBuf(serialized.data, 2 + 4).value
        /\ (received.op = "deserialize" /\ DeliveredWhole) =>
                /\ ~received.threw
                /\ received.data.mountPoints = serialized.data.mountPoints

C29_Witness ==
    /\ SerializedAtFour
    /\ DeliveredWhole
    /\ Len(serialized.data.mountPoints) = 2
    /\ ~received.threw
    /\ received.data.mountPoints = serialized.data.mountPoints

\* The serialization bits of the capabilities serialize() was called with
CustomBit == serialized.protocolCapabilities % 2 = 1

ThriftBit == (serialized.protocolCapabilities \div 4) % 2 = 1

\* serialize() threw and left the TakeoverData and the message alone.
NothingSerialized ==
    /\ serialized.threw
    /\ msg = [data |-> <<>>, files |-> <<>>]
    /\ takeoverData = serialized.data

\* C30 (as the code has it): serialize() looks at the two serialization
\* bits of the capabilities. With CUSTOM_SERIALIZATION alone it uses the
\* custom serialization; with THRIFT_SERIALIZATION alone it uses the thrift
\* one, which throws unless the capabilities are exactly those of version 3
\* or 4; with both bits or neither it throws std::runtime_error and makes
\* no message.
C30_DialectChoice ==
    serialized.op = "serialize" =>
        /\ (CustomBit /\ ~ThriftBit) =>
                ~serialized.threw /\ serialized.dialect = "custom"
        /\ (ThriftBit /\ ~CustomBit) =>
                /\ serialized.dialect = "thrift"
                /\ serialized.threw <=>
                        serialized.protocolCapabilities \notin {2 + 4, 2 + 4 + 8}
        /\ (CustomBit <=> ThriftBit) => serialized.dialect = "none"
        /\ serialized.threw => NothingSerialized

\* Both serialization bits: no serialization is chosen.
C30_Witness ==
    /\ serialized.op = "serialize"
    /\ serialized.protocolCapabilities = 1 + 2 + 4
    /\ Len(serialized.data.mountPoints) = 1
    /\ serialized.dialect = "none"
    /\ NothingSerialized

\* C30 as stated: for every capability value the thrift serialization is
\* used if the THRIFT_SERIALIZATION bit is set, the custom one otherwise.
C30_Original ==
    serialized.op = "serialize" =>
        serialized.dialect = IF ThriftBit THEN "thrift" ELSE "custom"

\* C31: isPing is true of a message exactly when its body is 4 bytes long
\* and is the big-endian PING constant (3): it is true of serializePing(),
\* and no MOUNTS or ERROR message of either serialization is taken for a
\* ping, the thrift ones included, whose first word is also 3.
C31_PingDetection ==
    pingCheck.op = "isPing" =>
        /\ pingCheck.result <=> pingCheck.data = <<0, 0, 0, 3>>
        /\ serialized.op = "serializePing" => pingCheck.result
        /\ serialized.op \in {"serialize", "serializeError"} => ~pingCheck.result

\* A thrift message of no mounts, whose first word is 3, is no ping.
C31_Witness ==
    /\ pingCheck.op = "isPing"
    /\ serialized.op = "serialize"
    /\ serialized.dialect = "thrift"
    /\ serialized.data.mountPoints = <<>>
    /\ SubSeq(pingCheck.data, 1, 4) = <<0, 0, 0, 3>>
    /\ ~pingCheck.result

\* The capability sets of the versions 0, 1, 3 and 4
VersionCapabilities == {0} \cup SupportedCapabilities

\* C32: serializeError does not throw for the capability set of any of the
\* versions 0, 1, 3 and 4; with capabilities 0 (NeverSupported) it makes an
\* ERROR message of the custom serialization; and deserializing an ERROR
\* message of either serialization yields no mount data but throws an error
\* whose text is "<exceptionClass>: <message>".
C32_ErrorMessages ==
    serialized.op = "serializeError" =>
        /\ serialized.protocolCapabilities \in VersionCapabilities
                => ~serialized.threw
        /\ serialized.protocolCapabilities = 0 =>
                /\ serialized.dialect = "custom"
                /\ received.op = "none" => SubSeq(msg.data, 1, 4) = <<0, 0, 0, 1>>
        /\ received.op = "deserialize" =>
                /\ received.threw
                /\ received.cause = "error message"
                /\ received.data = [lockFile |-> NoFd, thriftSocket |-> NoFd,
                                    mountPoints |-> <<>>]
                /\ received.what =
                       serialized.ew.class_name \o <<58, 32>> \o serialized.ew.what

\* The error sent when no version is common, read back.
C32_Witness ==
    /\ serialized.op = "serializeError"
    /\ serialized.protocolCapabilities = 0
    /\ serialized.ew.what # <<>>
    /\ received.op = "deserialize"
    /\ received.threw
    /\ received.what = serialized.ew.class_name \o <<58, 32>> \o serialized.ew.what

(***************************************************************************)
(* Resumption after a load                                                 *)
(***************************************************************************)
\* The op of p waited on a loading promise, its thenValue continuation has
\* run LockedState{self}, and the runner has not dispatched on the tag yet.
Resumed(p) == ops[p].pc = "locked" /\ ops[p].waits > 0 /\ lock = p

\* C33: whenever an operation that waited on a loading promise resumes and
\* reacquires the state lock, the tag is BLOB_NOT_LOADING or
\* MATERIALIZED_IN_OVERLAY and never BLOB_LOADING (the XDCHECK of the
\* thenValue continuations of both runners).
C33_ResumedNotLoading ==
    \A p \in Procs : Resumed(p) => state.tag # BLOB_LOADING

\* The case of C33: a resumed op holds the lock while another load, started
\* after the one it waited on, is in flight.
C33_ResumedWhileLoading ==
    \E p \in Procs : Resumed(p) /\ state.tag = BLOB_LOADING

\* C34: every operation waits on a blob-load promise at most once between
\* its start and its completion; after it resumes it runs its continuation
\* to completion under the lock without waiting again.
C34_WaitsAtMostOnce ==
    \A p \in Procs : ops[p].waits <= 1

\* The case of C34: a resumed op found BLOB_LOADING and is waiting a second
\* time, on the promise of a later load.
C34_WaitsAgain ==
    \E p \in Procs :
        /\ ops[p].pc = "waiting"
        /\ ops[p].waits = 2
        /\ ops[p].future = Len(promises)
        /\ Len(promises) = 2

\* C35: while a getBlob request started by startLoadingData is outstanding
\* the tag is BLOB_LOADING or MATERIALIZED_IN_OVERLAY, so its completion
\* handler never finds BLOB_NOT_LOADING (the EDEN_BUG branch).
C35_LoadOutstanding ==
    \A i \in 1..Len(loads) :
        loads[i].pc = "inflight" =>
            state.tag \in {BLOB_LOADING, MATERIALIZED_IN_OVERLAY}

\* The case of C35: the completion handler of one load has reset the tag
\* and a later getBlob request is outstanding.
C35_Witness ==
    \E i, j \in 1..Len(loads) :
        /\ loads[i].pc \in {"fulfil", "done"}
        /\ loads[j].pc = "inflight"
        /\ ~edenBug

\* The completion handler of load i runs in this step and finds the inode
\* MATERIALIZED_IN_OVERLAY. Load i was installed with promise i.
CompletionFindsMaterialized(i) ==
    /\ loads[i].pc = "inflight"
    /\ loads'[i].pc = "done"
    /\ state.tag = MATERIALIZED_IN_OVERLAY

GetBlobThrows(p) ==
    /\ ops[p].pc = "locked"
    /\ ops'[p].result = Failure("getBlob")

\* C37: startLoadingData asks BlobAccess for the blob before it installs
\* the loading promise or changes the tag: when getBlob throws
\* synchronously the tag is still BLOB_NOT_LOADING, no promise is installed,
\* no request is outstanding and no subscriber is left waiting.
C37_GetBlobThrows ==
    [][\A p \in Procs :
          GetBlobThrows(p) =>
              /\ state.tag = BLOB_NOT_LOADING
              /\ state'.tag = BLOB_NOT_LOADING
              /\ state'.blobLoadingPromise = NoPromise
              /\ promises' = promises
              /\ loads' = loads
              /\ lock' = NoHolder
              /\ ops'[p].pc = "done"
              /\ \A q \in Procs : ops'[q].pc = "waiting" => ops[q].pc = "waiting"]_vars

\* The case of C37: an operation has failed with the exception of getBlob
\* and the inode is not loading.
C37_Witness ==
    \E p \in Procs :
        /\ ops[p].pc = "done"
        /\ ops[p].result = Failure("getBlob")
        /\ state.tag = BLOB_NOT_LOADING
        /\ state.blobLoadingPromise = NoPromise

\* The thread of p runs one of its scope-exit actions in this step:
\* materializeInParent, which acquires the rename lock of the mount, or
\* loadingPromise->setValue(nullptr).
RunsScopeExit(p) ==
    /\ ops[p].pc \in {"publish", "fulfil"}
    /\ ops'[p].pc # ops[p].pc

\* The completion handler of load i fulfils the promise in this step.
FulfilsPromise(i) ==
    /\ loads[i].pc = "fulfil"
    /\ loads'[i].pc = "done"

\* C38: the deferred actions, fulfilling a loading promise and publishing
\* the materialization to the parent under the rename lock, are executed
\* only where the executing thread does not hold the state lock of the
\* inode: the thread of an operation has released it, and the completion
\* handler fulfils the promise in a step of its own, after the step that
\* holds the lock, touching neither the state nor the lock.
C38_DeferredOutsideLock ==
    [][/\ \A p \in Procs :
            RunsScopeExit(p) => lock # p /\ lock' = lock /\ state' = state
       /\ \A i \in 1..Len(loads) :
            FulfilsPromise(i) => lock' = lock /\ state' = state
       /\ parentNotified' # parentNotified =>
            \E p \in Procs : RunsScopeExit(p) /\ lock # p]_vars

\* The case of C38: a truncation that took over a loading promise has
\* published to the parent and fulfilled the promise, while another
\* operation holds the state lock.
C38_Witness ==
    \E p, q \in Procs :
        /\ ops[p].pc = "done"
        /\ ops[p].scopeExit
        /\ parentNotified > 0
        /\ \E i \in 1..Len(promises) : promises[i].value = "nullptr"
        /\ lock = q
        /\ q # p

(***************************************************************************)
(* Progress of the operations                                              *)
(***************************************************************************)
\* The steps the thread of p takes once its call has the state lock, and
\* the continuations the executor runs for it: none of them blocks on
\* anything but the state lock and the loading promise.
OpStep(p) ==
    /\ \/ Resume(p)
       \/ runWhileDataLoaded(p)
       \/ readFn(p)
       \/ runWhileMaterialized(p)
       \/ truncateAndRun(p)
       \/ writeImpl(p)
       \/ fallocateFn(p)
       \/ setAttrs(p)
       \/ materializeInParent(p)
       \/ fulfilWithNull(p)
       \/ stat(p)
       \/ statSizeReady(p)
    /\ UNCHANGED otherVars

\* Every getBlob future completes, and its thenTry continuation runs to
\* its end.
LoadStep(i) ==
    /\ i \in 1..Len(loads)
    /\ blobLoaded(i) \/ fulfilLoad(i)
    /\ UNCHANGED otherVars

\* Each operation starts at most one load.
LoadSlots == 1..NumOps

\* The operations of Spec, with threads that keep running and getBlob
\* futures that complete.
SpecProgress ==
    /\ Init
    /\ [][Next]_vars
    /\ \A p \in Procs : WF_vars(OpStep(p))
    /\ \A i \in LoadSlots : WF_vars(LoadStep(i))

\* C39: every operation that subscribed to a loading promise is resumed
\* and completes, whatever happens to the load it waits on: no subscriber
\* waits on a promise that is never fulfilled.
C39_SubscribersComplete ==
    \A p \in Procs : (ops[p].pc = "waiting") ~> (ops[p].pc = "done")

\* The case of C39: a subscriber of a load that raced with a truncation
\* has been resumed with the null blob and has completed.
C39_Witness ==
    \E p \in Procs :
        /\ ops[p].pc = "done"
        /\ ops[p].waits > 0
        /\ ops[p].future # NoPromise
        /\ promises[ops[p].future].value = "nullptr"

(***************************************************************************)
(* PrjfsChannel: the ProjectedFS callbacks and stop()                      *)
(***************************************************************************)
\* The callbacks the kernel invokes while the model runs.
NumCallbacks == 2

CallbackIds == 1..NumCallbacks

\* The callbacks registered by PrjfsChannel::start. startEnumeration stands
\* for the callbacks that hand their request to the dispatcher and return
\* ERROR_IO_PENDING (getEnumerationData, getPlaceholderInfo, queryFileName
\* and getFileData are written the same way); endEnumeration returns at
\* once.
CallbackKinds == {"startEnumeration", "endEnumeration", "notification", "cancelCommand"}

\* A callback the kernel has not invoked.
IdleCallback ==
    [pc |-> "idle", kind |-> "none",
     recursive |-> FALSE,   \* TriggeringProcessId == GetCurrentProcessId()
     afterReset |-> FALSE,  \* it started when inner_ was reset already
     channel |-> "none",    \* the RcuLockedPtr it holds, in the callback or
                            \* in its PrjfsRequestContext
     reached |-> FALSE,     \* a method of PrjfsChannelInner was called
     result |-> "none"]

\* The channel after PrjfsChannel::start().
InitPrjfs ==
    /\ InodeUnused
    /\ StoreUnused
    /\ TakeoverUnused
    /\ inner = "inner"
    /\ stopPromise = FALSE
    /\ stopping = "running"
    /\ callbacks = [c \in CallbackIds |-> IdleCallback]

\* The kernel invokes a callback: cancelCommand does nothing, the others
\* begin with BAIL_ON_RECURSIVE_CALL.
KernelCallback(c) ==
    /\ callbacks[c].pc = "idle"
    /\ \A d \in CallbackIds : d < c => callbacks[d].pc # "idle"
    /\ \E kind \in CallbackKinds, recursive \in BOOLEAN :
        LET cb == [IdleCallback EXCEPT !.kind = kind,
                                       !.recursive = recursive,
                                       !.afterReset = (inner = "nullptr")]
        IN callbacks' = [callbacks EXCEPT ![c] =
               IF kind = "cancelCommand"
               THEN [cb EXCEPT !.pc = "returned", !.result = "void"]
               ELSE IF recursive
               THEN [cb EXCEPT !.pc = "returned", !.result = "ERROR_ACCESS_DENIED"]
               ELSE [cb EXCEPT !.pc = "entered"]]
    /\ UNCHANGED <<inner, stopPromise, stopping, inodeVars, storeVars, takeoverVars>>

\* getChannel: channel->getInner() takes the RCU read lock and loads inner_.
getChannel(c) ==
    /\ callbacks[c].pc = "entered"
    /\ callbacks' = [callbacks EXCEPT ![c].pc = "channel", ![c].channel = inner]
    /\ UNCHANGED <<inner, stopPromise, stopping, inodeVars, storeVars, takeoverVars>>

\* The call of the PrjfsChannelInner method with a PrjfsRequestContext that
\* owns the RcuLockedPtr: the method returns at once and the context is
\* destroyed, or (not endEnumeration) it returns ERROR_IO_PENDING and the
\* continuation of the request keeps the context.
CallInner(c) ==
    \/ callbacks' = [callbacks EXCEPT ![c].pc = "returned",
                                      ![c].reached = TRUE,
                                      ![c].channel = "none",
                                      ![c].result = "returned by the method"]
    \/ /\ callbacks[c].kind # "endEnumeration"
       /\ callbacks' = [callbacks EXCEPT ![c].pc = "pending",
                                         ![c].reached = TRUE,
                                         ![c].result = "ERROR_IO_PENDING"]

\* runCallback after getChannel.
runCallback(c) ==
    /\ callbacks[c].pc = "channel"
    /\ callbacks[c].kind # "notification"
    /\ IF callbacks[c].channel = "nullptr"
       THEN callbacks' = [callbacks EXCEPT ![c].pc = "returned",
                                           ![c].channel = "none",
                                           ![c].result = "ERROR_INVALID_PARAMETER"]
       ELSE CallInner(c)
    /\ UNCHANGED <<inner, stopPromise, stopping, inodeVars, storeVars, takeoverVars>>

\* The notification callback after getChannel: EDEN_BUG() when the channel
\* is null (the bug is reported; the exception, if the build throws one, is
\* turned into a HRESULT by exceptionToHResult).
notification(c) ==
    /\ callbacks[c].pc = "channel"
    /\ callbacks[c].kind = "notification"
    /\ IF callbacks[c].channel = "nullptr"
       THEN callbacks' = [callbacks EXCEPT ![c].pc = "returned",
                                           ![c].channel = "none",
                                           ![c].result = "EDEN_BUG"]
       ELSE CallInner(c)
    /\ UNCHANGED <<inner, stopPromise, stopping, inodeVars, storeVars, takeoverVars>>

\* .ensure([context = std::move(context)] {}): the request is finished and
\* the last reference to its context is dropped.
contextDestroyed(c) ==
    /\ callbacks[c].pc = "pending"
    /\ callbacks' = [callbacks EXCEPT ![c].pc = "returned", ![c].channel = "none"]
    /\ UNCHANGED <<inner, stopPromise, stopping, inodeVars, storeVars, takeoverVars>>

\* PrjfsChannel::stop() up to makeSemiFutureWith: PrjStopVirtualizing and
\* mountChannel_ = nullptr.
stop ==
    /\ stopping = "running"
    /\ ~stopPromise
    /\ stopping' = "reset"
    /\ UNCHANGED <<inner, stopPromise, callbacks, inodeVars, storeVars, takeoverVars>>

\* inner_.reset()
reset ==
    /\ stopping = "reset"
    /\ inner' = "nullptr"
    /\ stopping' = "synchronize"
    /\ UNCHANGED <<stopPromise, callbacks, inodeVars, storeVars, takeoverVars>>

\* The callbacks and request contexts that hold the inner channel.
Holders(cbs) == {c \in CallbackIds : cbs[c].channel = "inner"}

\* A synchronize that returns at once.
synchronize_noWait(cbs) == TRUE

\* inner_.synchronize() returns when every RCU reader that holds the old
\* pointer has released it.
synchronize(cbs) == Holders(cbs) = {}

\* inner_.synchronize() returns.
synchronized ==
    /\ stopping = "synchronize"
    /\ synchronize(callbacks)
    /\ stopping' = "setValue"
    /\ UNCHANGED <<inner, stopPromise, callbacks, inodeVars, storeVars, takeoverVars>>

\* stopPromise_.setValue(StopData{})
setStopValue ==
    /\ stopping = "setValue"
    /\ stopPromise' = TRUE
    /\ stopping' = "stopped"
    /\ UNCHANGED <<inner, callbacks, inodeVars, storeVars, takeoverVars>>

NextPrjfs ==
    \/ \E c \in CallbackIds : KernelCallback(c)
    \/ \E c \in CallbackIds : getChannel(c)
    \/ \E c \in CallbackIds : runCallback(c)
    \/ \E c \in CallbackIds : notification(c)
    \/ \E c \in CallbackIds : contextDestroyed(c)
    \/ stop
    \/ reset
    \/ synchronized
    \/ setStopValue

SpecPrjfs == InitPrjfs /\ [][NextPrjfs]_vars

\* The stop promise is fulfilled only after inner_ has been reset and every
\* callback and request context that obtained the inner channel has
\* released it.
StoppedAfterDrain ==
    stopPromise => inner = "nullptr" /\ Holders(callbacks) = {}

\* What a callback that finds no channel returns.
ResultWithoutChannel(cb) ==
    CASE cb.kind = "cancelCommand" -> "void"
      [] cb.recursive -> "ERROR_ACCESS_DENIED"
      [] cb.kind = "notification" -> "EDEN_BUG"
      [] OTHER -> "ERROR_INVALID_PARAMETER"

\* The callback looks for the channel: it is not cancelCommand and does not
\* bail out as a recursive call.
CallsGetChannel(cb) == cb.kind # "cancelCommand" /\ ~cb.recursive

\* C40 as stated: the stop promise is fulfilled only after the reset and
\* the release of the inner channel by everyone that obtained it; any
\* callback that starts after the reset obtains a null channel and returns
\* ERROR_INVALID_PARAMETER without reaching the dispatcher.
C40_Original ==
    /\ StoppedAfterDrain
    /\ \A c \in CallbackIds :
          /\ callbacks[c].afterReset
          /\ CallsGetChannel(callbacks[c])
          /\ callbacks[c].pc = "returned"
          => /\ ~callbacks[c].reached
             /\ callbacks[c].result = "ERROR_INVALID_PARAMETER"

\* C40, amended: the stop promise is fulfilled only after the reset and the
\* release of the inner channel by everyone that obtained it. A callback
\* that starts after the reset never holds the inner channel and never
\* reaches a method of the inner channel, and so not the dispatcher; it
\* returns ERROR_INVALID_PARAMETER when it goes through runCallback,
\* reports EDEN_BUG when it is the notification callback, returns
\* ERROR_ACCESS_DENIED before it looks at the channel when EdenFS itself
\* triggered it, and does nothing when it is cancelCommand.
C40_StopDrains ==
    /\ StoppedAfterDrain
    /\ \A c \in CallbackIds :
          callbacks[c].afterReset =>
              /\ ~callbacks[c].reached
              /\ callbacks[c].channel # "inner"
              /\ callbacks[c].pc = "returned" =>
                    callbacks[c].result = ResultWithoutChannel(callbacks[c])

\* The case of C40: the stop promise is fulfilled; one callback obtained
\* the inner channel before the reset, reached the inner channel and has
\* released it; another started after the reset and was turned away.
C40_Witness ==
    /\ stopPromise
    /\ \E c, d \in CallbackIds :
          /\ ~callbacks[c].afterReset
          /\ callbacks[c].reached
          /\ callbacks[c].result = "ERROR_IO_PENDING"
          /\ callbacks[c].pc = "returned"
          /\ callbacks[d].afterReset
          /\ callbacks[d].pc = "returned"
          /\ callbacks[d].result = "ERROR_INVALID_PARAMETER"

====
